---- MODULE Spec2Model ----
(***************************************************************************)
(* SETools: the catalogue-configuration interpreter of shapepipe           *)
(* (modules/SETools_package/SETools/SETools_script.py).                    *)
(*                                                                         *)
(* A Python string is a sequence of tokens (a token holds none of the      *)
(* characters the code that handles the string splits it on); Str joins    *)
(* the tokens, so two Python strings are equal iff their Str are equal.    *)
(* A numpy vector over the catalogue rows is a function on 0..N-1; an      *)
(* index array is a sequence of row positions, counted from 0.             *)
(* A dict is a function on its keys; the iteration order                   *)
(* of a dict (Python 2) is not fixed by the program and is a               *)
(* nondeterministic choice.  A raised exception stops process(): pc        *)
(* becomes "error" and err holds the message.                              *)
(***************************************************************************)
EXTENDS Integers, Sequences, FiniteSets, TLC

VARIABLES
    pc,            \* position of process(): read, the six families, done, error
    err,           \* message of the exception that stopped the run ("" if none)
    config,        \* the raw lines of the config file read so far
    in_section,    \* read(): 0, or 1..6 for the kind of the open section
    sec_name,      \* read(): mask_name, plot_name, ... (kind -> current name)
    _mask,         \* section tables filled by read(): name -> list of lines
    _mask_key,     \* names of the MASK sections in declaration order
    _plot,
    _stat,
    _new_cat,
    _rand_split,
    _flag_split,
    data,          \* self._cat_file.get_data(): column name -> vector
    attrs,         \* the product attributes that exist on self (self.mask, ...)
    mask,          \* self.mask: name -> boolean vector
    mk,            \* _make_mask locals: position in _mask_key, in the lines, mask_tmp
    handed,        \* history: the mask_dict handed to the interpreter, per evaluated line
    todo,          \* keys a dict loop still has to visit
    rs,            \* _make_rand_split locals: i, ratio, mask, mask_ratio, mask_left, ...
    rand_split,    \* self.rand_split: name -> product dict
    rs_log,        \* history: per section, the locals at the end of its iteration
    flag_split,    \* self.flag_split: name -> partitions
    fs,            \* _make_flag_split locals: i, param_name
    plot,          \* self.plot: name -> PARAM -> subkey -> value
    new_cat,       \* self.new_cat: name -> column -> value
    stat,          \* self.stat: name -> key -> value
    built,         \* history: per non-mask family built, the mask names present then
    dirs,          \* output sub-directories created
    files,         \* files written
    call,          \* a writer called on its own: its name and arguments (<<>> if none)
    runs           \* history: what each earlier run of process() on this object gave

vars == <<pc, err, config, in_section, sec_name, _mask, _mask_key, _plot, _stat,
          _new_cat, _rand_split, _flag_split, data, attrs, mask, mk, handed, todo,
          rs, rand_split, rs_log, flag_split, fs, plot, new_cat, stat, built, dirs,
          files, call, runs>>

tables == <<_mask, _mask_key, _plot, _stat, _new_cat, _rand_split, _flag_split>>

others == <<plot, new_cat, stat>>

(* ----------------------------- bounds ---------------------------------- *)

\* rows of the catalogue
CatSize == 3
\* lines of a config file
MaxLines == 4
\* lines of a config file in the reader's specification
MaxReadLines == 3

(* ----------------------------- strings --------------------------------- *)

RECURSIVE Str(_)
Str(p) == IF p = <<>> THEN "" ELSE Head(p) \o Str(Tail(p))

\* re.split on a set of one-character separators: n separators give n+1 pieces
RECURSIVE Split(_, _)
Split(s, seps) ==
    IF s = <<>> THEN << <<>> >>
    ELSE LET r == Split(Tail(s), seps)
         IN  IF Head(s) \in seps THEN << <<>> >> \o r
             ELSE << <<Head(s)>> \o Head(r) >> \o Tail(r)

\* str.replace(c, '')
Remove(s, cs) == SelectSeq(s, LAMBDA t : t \notin cs)

\* '<kind>_{0}'.format(n)
GenName(prefix, n) == prefix \o "_" \o ToString(n)

\* '{0}'.format(x) and str(x) of a number or a boolean
Format(x) ==
    IF ToString(x) = "TRUE" THEN "True"
    ELSE IF ToString(x) = "FALSE" THEN "False" ELSE ToString(x)

(* ------------------------------ dicts ---------------------------------- *)

EmptyDict == [k \in {} |-> <<>>]

Put(d, k, v) == [x \in DOMAIN d \cup {k} |-> IF x = k THEN v ELSE d[x]]

Pop(d, k) == [x \in DOMAIN d \ {k} |-> d[x]]

(* ----------------------------- _clean_line ----------------------------- *)

None == <<"None">>

_clean_line(line) ==
    LET s  == Split(line, {"\""})
        l1 == IF Len(s) = 3
              THEN Remove(s[1], {" "}) \o s[2] \o Remove(s[3], {" "})
              ELSE Remove(line, {" "})
        l2 == Split(Remove(l1, {"\n", "\t"}), {"#"})[1]
    IN  IF Split(l1, {"#"})[1] = <<>> THEN None
        ELSE IF l2 # <<>> THEN l2 ELSE None

(* -------------------------------- read --------------------------------- *)

Kinds == <<"MASK", "PLOT", "STAT", "NEW_CAT", "RAND_SPLIT", "FLAG_SPLIT">>

Prefix == <<"mask", "plot", "stat", "new_cat", "rand_split", "flag_split">>

Table(n) == CASE n = 1 -> _mask [] n = 2 -> _plot [] n = 3 -> _stat
              [] n = 4 -> _new_cat [] n = 5 -> _rand_split [] n = 6 -> _flag_split

\* try: name = re.split(':', sec)[1]  except: name = '<kind>_{0}'.format(len(table)+1)
SectionName(sec, n) ==
    LET p == Split(sec, {":"})
    IN  IF Len(p) >= 2 THEN Str(p[2])
        ELSE GenName(Prefix[n], Cardinality(DOMAIN Table(n)) + 1)

\* the tables after one more (cleaned) line; n is the kind of the section it falls in
WithTable(n, t) ==
    /\ _mask' = IF n = 1 THEN t ELSE _mask
    /\ _plot' = IF n = 2 THEN t ELSE _plot
    /\ _stat' = IF n = 3 THEN t ELSE _stat
    /\ _new_cat' = IF n = 4 THEN t ELSE _new_cat
    /\ _rand_split' = IF n = 5 THEN t ELSE _rand_split
    /\ _flag_split' = IF n = 6 THEN t ELSE _flag_split

\* the exception is noted and process() goes on
RaiseAndGoOn(msg) == pc' = pc /\ err' = msg

\* raise: process() has no handler, the exception ends it
Raise(msg) == pc' = "error" /\ err' = msg

\* the plots come before the masks
OrderPlotFirst == <<"plot", "mask", "new_cat", "rand_split", "flag_split", "stat", "done">>

\* the order of the task families in process()
Order == <<"mask", "plot", "new_cat", "rand_split", "flag_split", "stat", "done">>

\* the family process() turns to after family f
After(f) == Order[(CHOOSE n \in 1..6 : Order[n] = f) + 1]

readOnly == <<data, call, runs, attrs, mask, mk, handed, todo, rs, rand_split, rs_log,
              flag_split, fs, others, built, dirs, files>>

\* the table is left as the run before filled it
ResetKeep(table, empty) == table

\* l.163-169: self._<table> = {} (or [])
Reset(table, empty) == empty

\* process() up to the first line of read(): the file is rewound and every table
\* is reset
ReadBegin ==
    /\ pc = "process"
    /\ pc' = "read"
    /\ config' = <<>>
    /\ in_section' = 0
    /\ _mask' = Reset(_mask, EmptyDict) /\ _mask_key' = Reset(_mask_key, <<>>)
    /\ _plot' = Reset(_plot, EmptyDict) /\ _stat' = Reset(_stat, EmptyDict)
    /\ _new_cat' = Reset(_new_cat, EmptyDict)
    /\ _rand_split' = Reset(_rand_split, EmptyDict)
    /\ _flag_split' = Reset(_flag_split, EmptyDict)
    /\ UNCHANGED <<err, sec_name, readOnly>>

\* re.split('\[', line_tmp)[0] == '': the line begins with '['
IsHeader(line) == Head(line) = "["

\* a line that begins with '[' leaves the section open
OpenedKeep(in_sec, line) == in_sec

\* l.186-187: a line that begins with '[' closes the open section
Opened(in_sec, line) == IF in_sec # 0 /\ IsHeader(line) THEN 0 ELSE in_sec

\* an unknown kind is taken as MASK
KindNoMask(kind) == IF \E n \in 1..6 : Kinds[n] = kind
                    THEN CHOOSE n \in 1..6 : Kinds[n] = kind ELSE 1

\* the number of the kind of a header (in_section), 0 for any other word
KindNo(kind) == IF \E n \in 1..6 : Kinds[n] = kind
                THEN CHOOSE n \in 1..6 : Kinds[n] = kind ELSE 0

\* one turn of the while loop of read() on the raw line the file holds next
ReadLine(raw) ==
    /\ pc = "read"
    /\ config' = Append(config, raw)
    /\ LET line_tmp == _clean_line(raw)
           header   == IsHeader(line_tmp)
           open     == Opened(in_section, line_tmp)
           sec      == Split(line_tmp, {"[", "]"})[2]
           n        == KindNo(Str(Split(sec, {":"})[1]))
           name     == SectionName(sec, n)
       IN  IF line_tmp = None
           THEN UNCHANGED <<pc, err, in_section, sec_name, tables>>
           ELSE IF open = 0
           THEN IF ~header
                THEN /\ Raise("No section found")
                     /\ in_section' = open
                     /\ UNCHANGED <<sec_name, tables>>
                ELSE IF n = 0
                THEN /\ Raise("Section has to be in [...]")
                     /\ in_section' = open
                     /\ UNCHANGED <<sec_name, tables>>
                ELSE /\ in_section' = n
                     /\ sec_name' = [sec_name EXCEPT ![n] = name]
                     /\ _mask_key' = IF n = 1 THEN Append(_mask_key, name) ELSE _mask_key
                     /\ WithTable(n, Put(Table(n), name, <<>>))
                     /\ UNCHANGED <<pc, err>>
           ELSE /\ WithTable(open, [Table(open) EXCEPT ![sec_name[open]] = Append(@, line_tmp)])
                /\ in_section' = open
                /\ UNCHANGED <<pc, err, sec_name, _mask_key>>
    /\ UNCHANGED readOnly

\* readline() returns '': read() returns and process() goes on with the masks
ReadEOF ==
    /\ pc = "read"
    /\ pc' = Order[1]
    /\ UNCHANGED <<err, config, in_section, sec_name, tables, readOnly>>

(* ------------------------------ catalogue ------------------------------ *)

Rows == 0 .. CatSize - 1

Ones == [r \in Rows |-> TRUE]

InitCommon ==
    /\ pc = "process" /\ err = "" /\ config = <<>> /\ in_section = 0
    /\ sec_name = [n \in 1..6 |-> ""]
    /\ _mask = EmptyDict /\ _mask_key = <<>> /\ _plot = EmptyDict
    /\ _stat = EmptyDict /\ _new_cat = EmptyDict
    /\ _rand_split = EmptyDict /\ _flag_split = EmptyDict
    /\ attrs = {} /\ mask = EmptyDict /\ mk = <<>> /\ handed = <<>> /\ todo = {}
    /\ rs = <<>> /\ rand_split = EmptyDict /\ rs_log = EmptyDict
    /\ flag_split = EmptyDict /\ fs = <<>> /\ built = EmptyDict
    /\ plot = EmptyDict /\ new_cat = EmptyDict /\ stat = EmptyDict
    /\ dirs = {} /\ files = EmptyDict /\ call = <<>> /\ runs = <<>>

\* np.where(v)[0]: the positions of the True entries, ascending
RECURSIVE WhereFrom(_, _, _)
WhereFrom(v, r, n) ==
    IF r >= n THEN <<>>
    ELSE (IF v[r] THEN <<r>> ELSE <<>>) \o WhereFrom(v, r + 1, n)

Where(v) == WhereFrom(v, 0, CatSize)

\* | in place of &
AndAsOr(v, w) == [r \in Rows |-> v[r] \/ w[r]]

\* v &= w
And(v, w) == [r \in Rows |-> v[r] /\ w[r]]

(* ----------------------- scatalog.interpreter -------------------------- *)

CmpOps == {"<", ">"}

\* the first character of the two-character operators ==, !=, <=, >=
CmpOps2 == {"=", "!", "<", ">"}

IsInt(tok) == \E n \in 0..9 : ToString(n) = tok

IntLit(tok) == CHOOSE n \in 0..9 : ToString(n) = tok

Compare(op, x, y) ==
    CASE op = "<" -> x < y [] op = ">" -> x > y [] op = "==" -> x = y
      [] op = "!=" -> x # y [] op = "<=" -> x <= y [] op = ">=" -> x >= y

Ok(v) == [ok |-> TRUE, result |-> v]

Fail(msg) == [ok |-> FALSE, result |-> msg]

\* the expression sublanguage: a mask reference, a column, a comparison of a
\* column with a literal; a mask name is looked up in the mask_dict it is given
interpreter(string, catalog, make_compare, mask_dict) ==
    IF Len(string) = 1
    THEN IF string[1] \in DOMAIN mask_dict THEN Ok(mask_dict[string[1]])
         ELSE IF string[1] \in DOMAIN catalog
         THEN IF make_compare THEN Fail("TypeMismatch") ELSE Ok(catalog[string[1]])
         ELSE Fail("MissingMaskReference")
    ELSE IF Len(string) = 3 /\ string[2] \in CmpOps
    THEN IF string[1] \notin DOMAIN catalog THEN Fail("UnknownColumn")
         ELSE IF ~IsInt(string[3]) THEN Fail("TypeMismatch")
         ELSE Ok([r \in Rows |-> Compare(string[2], catalog[string[1]][r], IntLit(string[3]))])
    ELSE IF Len(string) = 4 /\ string[2] \in CmpOps2 /\ string[3] = "="
    THEN IF string[1] \notin DOMAIN catalog THEN Fail("UnknownColumn")
         ELSE IF ~IsInt(string[4]) THEN Fail("TypeMismatch")
         ELSE Ok([r \in Rows |-> Compare(string[2] \o "=", catalog[string[1]][r],
                                          IntLit(string[4]))])
    ELSE Fail("SyntaxError")

(* ------------------------ process(): the masks ------------------------- *)

\* no directory is made
MkDirNone(f) == dirs

\* process() l.82-86: mkdir <output_dir>/<family> when the family has a section
MkDir(f) == dirs \cup {f}

\* process() l.81-87 and _make_mask l.453-458: the directory, self.mask = {},
\* and the first mask_tmp
MaskBegin ==
    /\ pc = "mask"
    /\ IF Cardinality(DOMAIN _mask) = 0
       THEN /\ pc' = After("mask")
            /\ UNCHANGED <<dirs, attrs, mask, mk>>
       ELSE /\ pc' = "make_mask"
            /\ dirs' = MkDir("mask")
            /\ attrs' = attrs \cup {"mask"}
            /\ mask' = EmptyDict
            /\ mk' = [i |-> 1, j |-> 1, mask_tmp |-> Ones]
    /\ UNCHANGED <<err, config, in_section, sec_name, tables, data, call, runs, handed, todo,
                   rs, rand_split, rs_log, flag_split, fs, others, built, files>>

\* every declared mask name is already in the mapping
MaskDictAll == [n \in DOMAIN _mask |-> IF n \in DOMAIN mask THEN mask[n] ELSE Ones]

\* the mask_dict argument of the interpreter call in _make_mask
MaskDictArg == mask

\* _make_mask l.459-462: one line of the section _mask_key[mk.i]
MakeMaskLine ==
    /\ pc = "make_mask"
    /\ mk.j <= Len(_mask[_mask_key[mk.i]])
    /\ LET j == _mask[_mask_key[mk.i]][mk.j]
           r == interpreter(j, data, TRUE, MaskDictArg)
       IN  IF Str(j) = "NO_SAVE"
           THEN /\ mk' = [mk EXCEPT !.j = @ + 1]
                /\ UNCHANGED <<pc, err, handed>>
           ELSE /\ handed' = [i |-> mk.i, line |-> j, names |-> DOMAIN MaskDictArg,
                              ok |-> r.ok]
                /\ IF r.ok
                   THEN /\ mk' = [mk EXCEPT !.j = @ + 1,
                                            !.mask_tmp = And(@, r.result)]
                        /\ UNCHANGED <<pc, err>>
                   ELSE /\ Raise(r.result)
                        /\ UNCHANGED mk
    /\ UNCHANGED <<config, in_section, sec_name, tables, data, call, runs, attrs, mask, todo,
                   rs, rand_split, rs_log, flag_split, fs, others, built, dirs, files>>

\* the loop ends after its first turn
MoreSectionsNone(i) == FALSE

\* l.457: the for loop over _mask_key has a section after position i
MoreSections(i) == i < Len(_mask_key)

\* _make_mask l.463 and the next turn of the loop l.457-458; after the last
\* section, process() l.88 starts to visit self.mask.keys()
MakeMaskStore ==
    /\ pc = "make_mask"
    /\ mk.j > Len(_mask[_mask_key[mk.i]])
    /\ mask' = Put(mask, _mask_key[mk.i], mk.mask_tmp)
    /\ IF MoreSections(mk.i)
       THEN /\ mk' = [i |-> mk.i + 1, j |-> 1, mask_tmp |-> Ones]
            /\ UNCHANGED <<pc, todo>>
       ELSE /\ pc' = "save_mask"
            /\ todo' = DOMAIN mask'
            /\ UNCHANGED mk
    /\ UNCHANGED <<err, config, in_section, sec_name, tables, data, call, runs, attrs, handed,
                   rs, rand_split, rs_log, flag_split, fs, others, built, dirs, files>>

\* no list holds l
InListNever(l, list) == FALSE

\* l in list
InList(l, list) == \E n \in 1..Len(list) : Str(list[n]) = l

\* data[v] for a boolean vector v: the selected rows, in order
Select(v) == Where(v)

\* process() l.88-92 and save_mask: one key of self.mask.keys()
SaveMask ==
    /\ pc = "save_mask"
    /\ IF todo = {}
       THEN /\ pc' = After("mask")
            /\ UNCHANGED <<todo, files>>
       ELSE \E i \in todo :
            /\ todo' = todo \ {i}
            /\ files' = IF InList("NO_SAVE", _mask[i]) THEN files
                        ELSE Put(files, "mask/" \o i, Select(mask[i]))
            /\ UNCHANGED pc
    /\ UNCHANGED <<err, config, in_section, sec_name, tables, data, call, runs, attrs, mask, mk,
                   handed, rs, rand_split, rs_log, flag_split, fs, others, built, dirs>>

(* --------------------- process(): the random splits -------------------- *)

\* a float is held as a multiple of 1/Scale
Scale == 10000

\* largest integer literal read by float()
MaxNum == 100

NaN == 0 - 1

IsNum(tok) == \E n \in 0..MaxNum : ToString(n) = tok

Num(tok) == CHOOSE n \in 0..MaxNum : ToString(n) = tok

\* float(s) of the literals n and n.d; NaN stands for the ValueError
Unsigned(s) ==
    IF Len(s) = 1 /\ IsNum(s[1]) THEN Num(s[1]) * Scale
    ELSE IF Len(s) = 3 /\ IsNum(s[1]) /\ s[2] = "." /\ IsInt(s[3])
    THEN Num(s[1]) * Scale + IntLit(s[3]) * (Scale \div 10)
    ELSE NaN

\* float(s) of a literal with or without a minus sign
Float(s) ==
    IF s # <<>> /\ Head(s) = "-"
    THEN IF Unsigned(Tail(s)) = NaN THEN NaN ELSE 0 - Unsigned(Tail(s))
    ELSE Unsigned(s)

\* if ratio >= 1: ratio /= 100.
Percent(ratio) == IF ratio >= Scale THEN ratio \div 100 ELSE ratio

CeilDiv(a, b) == (a + b - 1) \div b

\* int(floor(cat_size*ratio))
NKeepFloor(cat_size, ratio) == (cat_size * ratio) \div Scale

\* int(ceil(cat_size*ratio))
NKeep(cat_size, ratio) == CeilDiv(cat_size * ratio, Scale)

\* int(ratio*100): int() rounds towards zero
Pct(ratio) ==
    IF ratio >= 0 THEN (ratio * 100) \div Scale ELSE 0 - (((0 - ratio) * 100) \div Scale)

\* 'ratio_{0}'.format(p)
RatioKey(p) == GenName("ratio", p)

\* range(0, n)
Range(n) == [k \in 1..n |-> k - 1]

\* the list is left as it is
PopAtKeep(list, j) == list

\* list.pop(j) for the position j (from 1) of the list: the list without it
PopAt(list, j) == SubSeq(list, 1, j - 1) \o SubSeq(list, j + 1, Len(list))

\* the vector `mask` a section of _make_rand_split starts from: the one array made
\* before the loop (l.526), as the sections before left it
SectionMask(m) == m

\* the array object that the local `mask` of _make_rand_split names; every
\* self.rand_split[i]['mask'] is a reference to it
MaskRef == "mask@526"

Bad(st, msg) == [st EXCEPT !.ok = FALSE, !.err = msg]

\* l.542-546: for k in ss: mask &= self.mask[k]
RECURSIVE AndMasks(_, _)
AndMasks(ss, st) ==
    IF ss = <<>> \/ ~st.ok THEN st
    ELSE AndMasks(Tail(ss),
            IF "mask" \in attrs /\ Str(Head(ss)) \in DOMAIN mask
            THEN [st EXCEPT !.mask = And(@, mask[Str(Head(ss))])]
            ELSE Bad(st, "mask does not exist"))

\* l.529-546: the lines of one section; st holds ratio and mask
RECURSIVE RandSplitLines(_, _)
RandSplitLines(lines, st) ==
    IF lines = <<>> \/ ~st.ok THEN st
    ELSE LET s == Split(Head(lines), {"="})
         IN  RandSplitLines(Tail(lines),
                IF Len(s) # 2 THEN Bad(st, "Not a good format")
                ELSE IF Str(s[1]) = "RATIO"
                THEN IF Float(s[2]) = NaN THEN Bad(st, "RATIO is not a number")
                     ELSE [st EXCEPT !.ratio = <<Percent(Float(s[2]))>>]
                ELSE IF Str(s[1]) = "MASK" THEN AndMasks(Split(s[2], {","}), st)
                ELSE st)

\* the mask names present when a family is built
MasksNow == IF "mask" \in attrs THEN DOMAIN mask ELSE {}

\* process() l.116-122 and _make_rand_split l.522-526
RandBegin ==
    /\ pc = "rand_split"
    /\ IF Cardinality(DOMAIN _rand_split) = 0
       THEN /\ pc' = After("rand_split")
            /\ UNCHANGED <<dirs, attrs, rand_split, rs, todo, built>>
       ELSE /\ pc' = "make_rand_split"
            /\ dirs' = MkDir("rand_split")
            /\ attrs' = attrs \cup {"rand_split"}
            /\ rand_split' = EmptyDict
            /\ rs' = [i |-> "", ratio |-> <<>>, mask |-> Ones, cat_size |-> 0,
                      n_keep |-> 0, mask_ratio |-> <<>>, mask_left |-> <<>>]
            /\ todo' = DOMAIN _rand_split
            /\ built' = Put(built, "rand_split", MasksNow)
    /\ UNCHANGED <<err, config, in_section, sec_name, tables, data, call, runs, mask, mk, handed,
                   rs_log, flag_split, fs, others, files>>

\* _make_rand_split l.527-551: the next section of self._rand_split.keys(), its
\* lines, and the locals the draw loop starts from
RandSection ==
    /\ pc = "make_rand_split"
    /\ \E i \in todo :
         LET st == RandSplitLines(_rand_split[i],
                      [ok |-> TRUE, err |-> "", ratio |-> rs.ratio,
                       mask |-> SectionMask(rs.mask)])
             cat_size == Len(Where(st.mask))
         IN  /\ todo' = todo \ {i}
             /\ rand_split' = Put(rand_split, i, EmptyDict)
             /\ IF ~st.ok
                THEN /\ Raise(st.err)
                     /\ rs' = [rs EXCEPT !.i = i, !.ratio = st.ratio, !.mask = st.mask]
                ELSE IF st.ratio = <<>>
                THEN /\ Raise("UnboundLocalError: ratio")
                     /\ rs' = [rs EXCEPT !.i = i, !.mask = st.mask]
                ELSE /\ pc' = "rand_draw"
                     /\ rs' = [i |-> i, ratio |-> st.ratio, mask |-> st.mask,
                               cat_size |-> cat_size,
                               n_keep |-> NKeep(cat_size, st.ratio[1]),
                               mask_ratio |-> <<>>, mask_left |-> Range(cat_size)]
                     /\ UNCHANGED err
    /\ UNCHANGED <<config, in_section, sec_name, tables, data, call, runs, attrs, mask, mk, handed,
                   rs_log, flag_split, fs, others, built, dirs, files>>

\* the loop never ends by its test
LoopEndsNever(n_drawn, n_keep) == FALSE

\* l.552: while(len(mask_ratio) != n_keep) ends
LoopEnds(n_drawn, n_keep) == n_drawn = n_keep

\* _make_rand_split l.552-554: one draw; np.random.randint(0, 0) raises
RandDraw ==
    /\ pc = "rand_draw"
    /\ ~LoopEnds(Len(rs.mask_ratio), rs.n_keep)
    /\ IF Len(rs.mask_left) = 0
       THEN /\ Raise("ValueError: low >= high")
            /\ UNCHANGED rs
       ELSE \E j \in 1..Len(rs.mask_left) :
               /\ rs' = [rs EXCEPT !.mask_ratio = Append(@, rs.mask_left[j]),
                                   !.mask_left = PopAt(@, j)]
               /\ UNCHANGED <<pc, err>>
    /\ UNCHANGED <<config, in_section, sec_name, tables, data, call, runs, attrs, mask, mk, handed,
                   todo, rand_split, rs_log, flag_split, fs, others, built, dirs, files>>

\* the complement is written first, the kept subset second
ProductKeptLast(ratio, mask_ratio, mask_left) ==
    Put(Put(Put(EmptyDict, "mask", MaskRef), RatioKey(100 - Pct(ratio)), mask_left),
        RatioKey(Pct(ratio)), mask_ratio)

\* l.557-559: the three writes to self.rand_split[i], in this order
Product(ratio, mask_ratio, mask_left) ==
    Put(Put(Put(EmptyDict, "mask", MaskRef), RatioKey(Pct(ratio)), mask_ratio),
        RatioKey(100 - Pct(ratio)), mask_left)

\* _make_rand_split l.555-559: the product of the section; after the last section,
\* process() l.123 starts to visit self.rand_split.keys()
RandStore ==
    /\ pc = "rand_draw"
    /\ LoopEnds(Len(rs.mask_ratio), rs.n_keep)
    /\ rand_split' = Put(rand_split, rs.i, Product(rs.ratio[1], rs.mask_ratio, rs.mask_left))
    /\ rs_log' = Put(rs_log, rs.i, rs)
    /\ IF todo = {}
       THEN /\ pc' = "save_rand_split"
            /\ todo' = DOMAIN rand_split'
       ELSE /\ pc' = "make_rand_split"
            /\ UNCHANGED todo
    /\ UNCHANGED <<err, config, in_section, sec_name, tables, data, call, runs, attrs, mask, mk,
                   handed, rs, flag_split, fs, others, built, dirs, files>>

\* data[index] for an index array on the rows `rows`
Take(rows, index) == [n \in 1..Len(index) |-> rows[index[n] + 1]]

\* process() l.123-125 and save_rand_split l.383-395 for one key of
\* self.rand_split.keys(): 'mask' is popped, one file per key left; an index past
\* the rows that the mask selects raises IndexError, after the files of any of the
\* other keys may have been written
SaveRandSplit ==
    /\ pc = "save_rand_split"
    /\ IF todo = {}
       THEN /\ pc' = After("rand_split")
            /\ UNCHANGED <<err, todo, rand_split, files>>
       ELSE \E i \in todo :
            LET rows == Select(rs.mask)
                part == Pop(rand_split[i], "mask")
                good == {k \in DOMAIN part :
                            \A n \in 1..Len(part[k]) : part[k][n] < Len(rows)}
                name(k) == "rand_split/" \o i \o "_" \o k
            IN  /\ todo' = todo \ {i}
                /\ rand_split' = [rand_split EXCEPT ![i] = part]
                /\ IF good = DOMAIN part
                   THEN /\ files' = [f \in DOMAIN files \cup {name(k) : k \in good} |->
                                       IF \E k \in good : f = name(k)
                                       THEN Take(rows, part[CHOOSE k \in good : f = name(k)])
                                       ELSE files[f]]
                        /\ UNCHANGED <<pc, err>>
                   ELSE /\ Raise("IndexError")
                        /\ \E done \in SUBSET good :
                             files' = [f \in DOMAIN files \cup {name(k) : k \in done} |->
                                         IF \E k \in done : f = name(k)
                                         THEN Take(rows, part[CHOOSE k \in done : f = name(k)])
                                         ELSE files[f]]
    /\ UNCHANGED <<config, in_section, sec_name, tables, data, call, runs, attrs, mask, mk, handed,
                   rs, rs_log, flag_split, fs, others, built, dirs>>

(* ------------------------ process(): the plots ------------------------- *)

Start == [ok |-> TRUE, err |-> "", val |-> EmptyDict]

\* _make_plot l.478-490: the lines of one section
RECURSIVE PlotLines(_, _)
PlotLines(lines, st) ==
    IF lines = <<>> \/ ~st.ok THEN st
    ELSE LET s  == Split(Head(lines), {"="})
             ss == Split(s[1], {"_"})
             k  == Str(ss[1])
         IN  PlotLines(Tail(lines),
                IF Len(s) # 2 THEN Bad(st, "Not a good format")
                ELSE IF Len(ss) = 1
                THEN [st EXCEPT !.val = Put(@, k, Put(EmptyDict, "0", s[2]))]
                ELSE IF Len(ss) = 2
                THEN [st EXCEPT !.val =
                        Put(@, k, Put(IF k \in DOMAIN @ THEN @[k] ELSE EmptyDict,
                                      Str(ss[2]), s[2]))]
                ELSE Bad(st, "Not a good format"))

\* process() l.94-100 and _make_plot: self.plot, or the error of a section
PlotBegin ==
    /\ pc = "plot"
    /\ IF Cardinality(DOMAIN _plot) = 0
       THEN /\ pc' = After("plot")
            /\ UNCHANGED <<err, dirs, attrs, plot, todo, built>>
       ELSE /\ dirs' = MkDir("plot")
            /\ attrs' = attrs \cup {"plot"}
            /\ built' = Put(built, "plot", MasksNow)
            /\ IF \E i \in DOMAIN _plot : ~PlotLines(_plot[i], Start).ok
               THEN /\ Raise("Not a good format")
                    /\ UNCHANGED <<plot, todo>>
               ELSE /\ pc' = "save_plot"
                    /\ plot' = [i \in DOMAIN _plot |-> PlotLines(_plot[i], Start).val]
                    /\ todo' = DOMAIN _plot
                    /\ UNCHANGED err
    /\ UNCHANGED <<config, in_section, sec_name, tables, data, call, runs, mask, mk, handed, rs,
                   rand_split, rs_log, flag_split, fs, new_cat, stat, files>>

PlotTypes == {"plot", "PLOT", "scatter", "SCATTER"}

HistTypes == {"histogram", "hist", "HISTOGRAM", "HIST"}

\* str() of a vector: its entries between brackets
RECURSIVE StrFrom(_, _)
StrFrom(v, r) ==
    IF r \notin DOMAIN v THEN <<"]">>
    ELSE (IF r = 0 THEN <<>> ELSE <<" ">>) \o <<Format(v[r])>> \o StrFrom(v, r + 1)

Stringify(v) == <<"[">> \o StrFrom(v, 0)

\* l.680-686: the segments s[k], ..., s[-2] of a template; the one at an odd
\* position ii = k - 1 is evaluated, the result is a string or the failure of the
\* interpreter
RECURSIVE Segments(_, _)
Segments(s, k) ==
    IF k > Len(s) - 1 THEN Ok(<<>>)
    ELSE LET rest == Segments(s, k + 1)
             v    == interpreter(s[k], data, FALSE, mask)
         IN  IF (k - 1) % 2 = 0
             THEN IF rest.ok THEN Ok(s[k] \o rest.result) ELSE rest
             ELSE IF ~v.ok THEN Fail(v.result)
             ELSE IF rest.ok THEN Ok(Stringify(v.result) \o rest.result) ELSE rest

\* l.677-686 (titles) and l.696-705 (labels): the text of a template
Template(text) ==
    LET s == Split(text, {"@"})
    IN  IF Len(s) >= 3
        THEN IF Segments(s, 2).ok THEN Ok(s[1] \o Segments(s, 2).result)
             ELSE Segments(s, 2)
        ELSE Ok(text)

\* l.675-688: the title of the figure
Title(p) ==
    IF "TITLE" \in DOMAIN p THEN Template(p["TITLE"]["0"]).result ELSE <<>>

\* l.693-709: the label of the curve i, None when there is none or the try fails
Label(p, i) ==
    IF "LABEL" \in DOMAIN p /\ i \in DOMAIN p["LABEL"] /\ Template(p["LABEL"][i]).ok
    THEN Template(p["LABEL"][i]).result ELSE None

\* what is drawn: the parameters, the title and the label of each curve
Figure(p) == [plot |-> p, title |-> Title(p), label |-> [i \in DOMAIN p["Y"] |-> Label(p, i)]]

\* SEPlot.__init__ and the curves of _make_plot l.692-749: "" when the figure is
\* drawn, the message of the exception otherwise
SEPlot(p) ==
    IF "TYPE" \notin DOMAIN p THEN "Plot type not specified"
    ELSE IF "0" \notin DOMAIN p["TYPE"] THEN "KeyError"
    ELSE IF Str(p["TYPE"]["0"]) \in PlotTypes /\ ~({"X", "Y"} \subseteq DOMAIN p)
    THEN "X and/or Y not provided"
    ELSE IF Str(p["TYPE"]["0"]) \in HistTypes /\ "Y" \notin DOMAIN p
    THEN "Y not provided"
    ELSE IF Str(p["TYPE"]["0"]) \notin PlotTypes \cup HistTypes THEN ""
    ELSE IF "TITLE" \in DOMAIN p /\ "0" \notin DOMAIN p["TITLE"] THEN "KeyError"
    ELSE IF "TITLE" \in DOMAIN p /\ ~Template(p["TITLE"]["0"]).ok THEN "interpreter"
    ELSE IF \E k \in DOMAIN p["Y"] : ~interpreter(p["Y"][k], data, FALSE, mask).ok
    THEN "interpreter"
    ELSE IF Str(p["TYPE"]["0"]) \in HistTypes THEN ""
    ELSE IF \E k \in DOMAIN p["Y"] : k \notin DOMAIN p["X"] /\ Cardinality(DOMAIN p["X"]) # 1
    THEN "You need to specified X for each Y provided"
    ELSE IF \E k \in DOMAIN p["X"] : ~interpreter(p["X"][k], data, FALSE, mask).ok
    THEN "interpreter"
    ELSE ""

\* process() l.101-103: one key of self.plot.keys(); self.mask is read
SavePlot ==
    /\ pc = "save_plot"
    /\ IF todo = {}
       THEN /\ pc' = After("plot")
            /\ UNCHANGED <<err, todo, files>>
       ELSE \E i \in todo :
            /\ todo' = todo \ {i}
            /\ IF "mask" \notin attrs
               THEN /\ Raise("AttributeError: mask")
                    /\ UNCHANGED files
               ELSE IF SEPlot(plot[i]) # ""
               THEN /\ Raise(SEPlot(plot[i]))
                    /\ UNCHANGED files
               ELSE /\ files' = IF Str(plot[i]["TYPE"]["0"]) \in PlotTypes \cup HistTypes
                                THEN Put(files, "plot/" \o i, Figure(plot[i])) ELSE files
                    /\ UNCHANGED <<pc, err>>
    /\ UNCHANGED <<config, in_section, sec_name, tables, data, call, runs, attrs, mask, mk, handed,
                   rs, rand_split, rs_log, flag_split, fs, others, built, dirs>>

(* ---------------- process(): the new catalogues and the statistics ----- *)

\* sc.interpreter(..., make_compare=False, mask_dict=self.mask).result
Value(expr) ==
    IF "mask" \notin attrs THEN Fail("AttributeError: mask")
    ELSE interpreter(expr, data, FALSE, mask)

\* _make_new_cat l.505-513: the lines of one section
RECURSIVE NewCatLines(_, _)
NewCatLines(lines, st) ==
    IF lines = <<>> \/ ~st.ok THEN st
    ELSE LET s == Split(Head(lines), {"="})
         IN  NewCatLines(Tail(lines),
                IF Len(s) # 2 THEN Bad(st, "Not a good format")
                ELSE IF Str(s[1]) = "OUTPUT_FORMAT"
                THEN [st EXCEPT !.val = Put(@, Str(s[1]), s[2])]
                ELSE IF ~Value(s[2]).ok THEN Bad(st, Value(s[2]).result)
                ELSE [st EXCEPT !.val = Put(@, Str(s[1]), Value(s[2]).result)])

\* process() l.105-111 and _make_new_cat
NewCatBegin ==
    /\ pc = "new_cat"
    /\ IF Cardinality(DOMAIN _new_cat) = 0
       THEN /\ pc' = After("new_cat")
            /\ UNCHANGED <<err, dirs, attrs, new_cat, todo, built>>
       ELSE /\ dirs' = MkDir("new_cat")
            /\ attrs' = attrs \cup {"new_cat"}
            /\ built' = Put(built, "new_cat", MasksNow)
            /\ IF \E i \in DOMAIN _new_cat : ~NewCatLines(_new_cat[i], Start).ok
               THEN /\ Raise(NewCatLines(_new_cat[CHOOSE i \in DOMAIN _new_cat :
                                ~NewCatLines(_new_cat[i], Start).ok], Start).err)
                    /\ UNCHANGED <<new_cat, todo>>
               ELSE /\ pc' = "save_new_cat"
                    /\ new_cat' = [i \in DOMAIN _new_cat |->
                                      NewCatLines(_new_cat[i], Start).val]
                    /\ todo' = DOMAIN _new_cat
                    /\ UNCHANGED err
    /\ UNCHANGED <<config, in_section, sec_name, tables, data, call, runs, mask, mk, handed, rs,
                   rand_split, rs_log, flag_split, fs, plot, stat, files>>

\* len() of a vector
Length(v) == Cardinality(DOMAIN v)

\* the orders in which the keys of a dict can be visited
Orders(keys) ==
    {o \in [1..Cardinality(keys) -> keys] : \A a, b \in DOMAIN o : o[a] = o[b] => a = b}

\* a column shorter than the row writes nothing
CellSkip(v, i) == IF i \in DOMAIN v THEN <<Format(v[i]), "\t">> ELSE <<>>

\* save_new_cat l.356-359: the cell of row i of a column
Cell(v, i) == IF i \in DOMAIN v THEN <<Format(v[i]), "\t">> ELSE <<"\t">>

\* save_new_cat l.352: the header cells, in the order of the keys
RECURSIVE HeaderCells(_)
HeaderCells(keys) ==
    IF keys = <<>> THEN <<>> ELSE <<Head(keys), "\t">> \o HeaderCells(Tail(keys))

\* save_new_cat l.355-359: the cells of row i
RECURSIVE RowCells(_, _, _)
RowCells(cat, keys, i) ==
    IF keys = <<>> THEN <<>>
    ELSE Cell(cat[Head(keys)], i) \o RowCells(cat, Tail(keys), i)

\* save_new_cat l.354-360: the rows i .. n_max - 1
RECURSIVE DataRows(_, _, _, _)
DataRows(cat, keys, i, n_max) ==
    IF i >= n_max THEN <<>>
    ELSE RowCells(cat, keys, i) \o <<"\n">> \o DataRows(cat, keys, i + 1, n_max)

\* save_new_cat l.348-351
NMax(cat) ==
    LET lens == {0 - 1} \cup {Length(cat[k]) : k \in DOMAIN cat}
    IN  CHOOSE n \in lens : \A m \in lens : m <= n

\* save_new_cat l.345-361: the text of the file, keys being new_cat.keys()
Ascii(cat, keys) ==
    <<"# HEADER", "\n", "# ">> \o HeaderCells(keys) \o <<"\n">>
      \o DataRows(cat, keys, 0, NMax(cat))

\* the formats written with save_as_fits
FitsFormats == {"fits", "SEx_cat"}

\* any format is written as text
TextFormatsAny == {"txt", "ascii", "bad"}

\* the formats written as text
TextFormats == {"txt", "ascii"}

\* process() l.112-114 and save_new_cat for one key of self.new_cat.keys()
SaveNewCat ==
    /\ pc = "save_new_cat"
    /\ IF todo = {}
       THEN /\ pc' = After("new_cat")
            /\ UNCHANGED <<err, todo, new_cat, files>>
       ELSE \E i \in todo :
            /\ todo' = todo \ {i}
            /\ IF "OUTPUT_FORMAT" \notin DOMAIN new_cat[i]
               THEN /\ Raise("OUTPUT_FORMAT not provided")
                    /\ UNCHANGED <<new_cat, files>>
               ELSE LET output_format == Str(new_cat[i]["OUTPUT_FORMAT"])
                        cat == Pop(new_cat[i], "OUTPUT_FORMAT")
                    IN  /\ new_cat' = [new_cat EXCEPT ![i] = cat]
                        /\ IF output_format \in FitsFormats
                           THEN /\ files' = Put(files, "new_cat/" \o i \o ".fits", cat)
                                /\ UNCHANGED <<pc, err>>
                           ELSE IF output_format \in TextFormats
                           THEN /\ \E keys \in Orders(DOMAIN cat) :
                                     files' = Put(files, "new_cat/" \o i \o ".txt",
                                                  Ascii(cat, keys))
                                /\ UNCHANGED <<pc, err>>
                           ELSE /\ Raise("Format should be in ['fits', 'SEx_cat', 'txt']")
                                /\ UNCHANGED files
    /\ UNCHANGED <<config, in_section, sec_name, tables, data, call, runs, attrs, mask, mk, handed,
                   rs, rand_split, rs_log, flag_split, fs, plot, stat, built, dirs>>

\* _make_stat l.602-606: the lines of one section
RECURSIVE StatLines(_, _)
StatLines(lines, st) ==
    IF lines = <<>> \/ ~st.ok THEN st
    ELSE LET s == Split(Head(lines), {"="})
         IN  StatLines(Tail(lines),
                IF Len(s) # 2 THEN Bad(st, "Not a good format")
                ELSE IF ~Value(s[2]).ok THEN Bad(st, Value(s[2]).result)
                ELSE [st EXCEPT !.val = Put(@, Str(s[1]), Value(s[2]).result)])

\* process() l.138-144 and _make_stat
StatBegin ==
    /\ pc = "stat"
    /\ IF Cardinality(DOMAIN _stat) = 0
       THEN /\ pc' = After("stat")
            /\ UNCHANGED <<err, dirs, attrs, stat, todo, built>>
       ELSE /\ dirs' = MkDir("stat")
            /\ attrs' = attrs \cup {"stat"}
            /\ built' = Put(built, "stat", MasksNow)
            /\ IF \E i \in DOMAIN _stat : ~StatLines(_stat[i], Start).ok
               THEN /\ Raise(StatLines(_stat[CHOOSE i \in DOMAIN _stat :
                                ~StatLines(_stat[i], Start).ok], Start).err)
                    /\ UNCHANGED <<stat, todo>>
               ELSE /\ pc' = "save_stat"
                    /\ stat' = [i \in DOMAIN _stat |-> StatLines(_stat[i], Start).val]
                    /\ todo' = DOMAIN _stat
                    /\ UNCHANGED err
    /\ UNCHANGED <<config, in_section, sec_name, tables, data, call, runs, mask, mk, handed, rs,
                   rand_split, rs_log, flag_split, fs, plot, new_cat, files>>

\* process() l.145-147 and save_stat for one key of self.stat.keys()
SaveStat ==
    /\ pc = "save_stat"
    /\ IF todo = {}
       THEN /\ pc' = After("stat")
            /\ UNCHANGED <<todo, files>>
       ELSE \E i \in todo :
            /\ todo' = todo \ {i}
            /\ files' = Put(files, "stat/" \o i \o ".txt", stat[i])
            /\ UNCHANGED pc
    /\ UNCHANGED <<err, config, in_section, sec_name, tables, data, call, runs, attrs, mask, mk,
                   handed, rs, rand_split, rs_log, flag_split, fs, others, built, dirs>>

(* ---------------------- process(): the flag splits --------------------- *)

FsStart == [ok |-> TRUE, err |-> "", param_name |-> fs.param_name]

\* _make_flag_split l.571-578: the lines of one section
RECURSIVE FlagSplitLines(_, _)
FlagSplitLines(lines, st) ==
    IF lines = <<>> \/ ~st.ok THEN st
    ELSE LET s == Split(Head(lines), {"="})
         IN  FlagSplitLines(Tail(lines),
                IF Len(s) # 2 THEN Bad(st, "Not a good format")
                ELSE IF Str(s[1]) = "PARAM_NAME" THEN [st EXCEPT !.param_name = <<s[2]>>]
                ELSE Bad(st, "PARAM_NAME not provided"))

\* process() l.127-133 and _make_flag_split l.565-568
FlagBegin ==
    /\ pc = "flag_split"
    /\ IF Cardinality(DOMAIN _flag_split) = 0
       THEN /\ pc' = After("flag_split")
            /\ UNCHANGED <<dirs, attrs, flag_split, fs, todo, built>>
       ELSE /\ pc' = "make_flag_split"
            /\ dirs' = MkDir("flag_split")
            /\ attrs' = attrs \cup {"flag_split"}
            /\ flag_split' = EmptyDict
            /\ fs' = [i |-> "", param_name |-> <<>>]
            /\ todo' = DOMAIN _flag_split
            /\ built' = Put(built, "flag_split", MasksNow)
    /\ UNCHANGED <<err, config, in_section, sec_name, tables, data, call, runs, mask, mk, handed,
                   rs, rand_split, rs_log, others, files>>

\* _make_flag_split l.569-578: the next section of self._flag_split.keys()
FlagSection ==
    /\ pc = "make_flag_split"
    /\ \E i \in todo :
         LET st == FlagSplitLines(_flag_split[i], FsStart)
         IN  /\ todo' = todo \ {i}
             /\ flag_split' = Put(flag_split, i, EmptyDict)
             /\ fs' = [i |-> i, param_name |-> st.param_name]
             /\ IF st.ok THEN UNCHANGED <<pc, err>> ELSE Raise(st.err)
    /\ UNCHANGED <<config, in_section, sec_name, tables, data, call, runs, attrs, mask, mk, handed,
                   rs, rand_split, rs_log, others, built, dirs, files>>

\* the positions where the column equals v, ascending
WhereEq(col, v) == Where([r \in Rows |-> col[r] = v])

\* the partitions go to every section
PartitionsAll(fsplit, i, parts) == [k \in DOMAIN fsplit |-> parts]

\* _make_flag_split l.585-586, which stand after the loop over the sections: the
\* partitions go to self.flag_split[i] for the i the loop ended on
Partitions(fsplit, i, parts) == [fsplit EXCEPT ![i] = parts]

\* _make_flag_split l.580-586, once the loop over the sections has ended; after
\* it process() l.134 starts to visit self.flag_split.keys()
FlagPartition ==
    /\ pc = "make_flag_split"
    /\ todo = {}
    /\ IF fs.param_name = <<>>
       THEN /\ Raise("UnboundLocalError: param_name")
            /\ UNCHANGED <<flag_split, todo>>
       ELSE IF Str(fs.param_name[1]) \notin DOMAIN data
       THEN /\ Raise("PARAM_NAME not in catalog")
            /\ UNCHANGED <<flag_split, todo>>
       ELSE LET col == data[Str(fs.param_name[1])]
                flag_values == {col[r] : r \in Rows}
            IN  /\ flag_split' = Partitions(flag_split, fs.i,
                                   [k \in {ToString(j) : j \in flag_values} |->
                                      WhereEq(col, CHOOSE j \in flag_values : ToString(j) = k)])
                /\ pc' = "save_flag_split"
                /\ todo' = DOMAIN flag_split
                /\ UNCHANGED err
    /\ UNCHANGED <<config, in_section, sec_name, tables, data, call, runs, attrs, mask, mk, handed,
                   rs, rand_split, rs_log, fs, others, built, dirs, files>>

\* process() l.134-136 and save_flag_split for one key of self.flag_split.keys():
\* one file per partition
SaveFlagSplit ==
    /\ pc = "save_flag_split"
    /\ IF todo = {}
       THEN /\ pc' = After("flag_split")
            /\ UNCHANGED <<todo, files>>
       ELSE \E i \in todo :
            LET name(k) == "flag_split/" \o i \o "_flag_" \o k
            IN  /\ todo' = todo \ {i}
                /\ files' = [f \in DOMAIN files \cup {name(k) : k \in DOMAIN flag_split[i]} |->
                               IF \E k \in DOMAIN flag_split[i] : f = name(k)
                               THEN flag_split[i][CHOOSE k \in DOMAIN flag_split[i] : f = name(k)]
                               ELSE files[f]]
                /\ UNCHANGED pc
    /\ UNCHANGED <<err, config, in_section, sec_name, tables, data, call, runs, attrs, mask, mk,
                   handed, rs, rand_split, rs_log, flag_split, fs, others, built, dirs>>

(* ------------------------ the writers, called alone --------------------- *)

\* an argument that is None, and an argument that has the value x
Missing == <<>>

Given(x) == <<x>>

\* the files after a writer has written w (name -> content)
Written(w) ==
    [f \in DOMAIN files \cup DOMAIN w |-> IF f \in DOMAIN w THEN w[f] ELSE files[f]]

\* the writer returns
Return == pc' = "returned" /\ UNCHANGED err

callOnly == <<config, in_section, sec_name, tables, data, runs, attrs, mask, mk, handed, todo,
              rs, rand_split, rs_log, flag_split, fs, others, built, dirs>>

\* save_mask(mask, output_path) l.307-314
CallSaveMask ==
    /\ pc = "call" /\ call.writer = "save_mask"
    /\ IF call.product = Missing
       THEN Raise("mask not provided") /\ UNCHANGED files
       ELSE IF call.output_path = Missing
       THEN Raise("output path not provided") /\ UNCHANGED files
       ELSE /\ files' = Written(Put(EmptyDict, call.output_path[1], Select(call.product[1])))
            /\ Return
    /\ UNCHANGED <<call, callOnly>>

\* save_new_cat(new_cat, output_path) l.333-363: None.pop and the path None + '.fits'
\* raise before a file is opened
CallSaveNewCat ==
    /\ pc = "call" /\ call.writer = "save_new_cat"
    /\ IF call.product = Missing
       THEN Raise("OUTPUT_FORMAT not provided") /\ UNCHANGED <<files, call>>
       ELSE IF "OUTPUT_FORMAT" \notin DOMAIN call.product[1]
       THEN Raise("OUTPUT_FORMAT not provided") /\ UNCHANGED <<files, call>>
       ELSE LET output_format == Str(call.product[1]["OUTPUT_FORMAT"])
                cat == Pop(call.product[1], "OUTPUT_FORMAT")
            IN  /\ call' = [call EXCEPT !.product = Given(cat)]
                /\ IF output_format \notin FitsFormats \cup TextFormats
                   THEN Raise("Format should be in ['fits', 'SEx_cat', 'txt']")
                          /\ UNCHANGED files
                   ELSE IF call.output_path = Missing
                   THEN Raise("TypeError: NoneType + str") /\ UNCHANGED files
                   ELSE IF output_format \in FitsFormats
                   THEN /\ files' = Written(Put(EmptyDict, call.output_path[1] \o ".fits", cat))
                        /\ Return
                   ELSE /\ \E keys \in Orders(DOMAIN cat) :
                             files' = Written(Put(EmptyDict, call.output_path[1] \o ".txt",
                                                  Ascii(cat, keys)))
                        /\ Return
    /\ UNCHANGED callOnly

\* save_rand_split(rand_split, output_path, file_number) l.383-395
CallSaveRandSplit ==
    /\ pc = "call" /\ call.writer = "save_rand_split"
    /\ IF call.product = Missing
       THEN Raise("rand_split not provided") /\ UNCHANGED <<files, call>>
       ELSE IF call.output_path = Missing
       THEN Raise("output path not provided") /\ UNCHANGED <<files, call>>
       ELSE IF call.file_number = Missing
       THEN Raise("file_number path not provided") /\ UNCHANGED <<files, call>>
       ELSE IF "mask" \notin DOMAIN call.product[1]
       THEN Raise("KeyError: mask") /\ UNCHANGED <<files, call>>
       ELSE LET rows == Select(call.product[1]["mask"])
                part == Pop(call.product[1], "mask")
                good == {k \in DOMAIN part :
                            \A n \in 1..Len(part[k]) : part[k][n] < Len(rows)}
                name(k) == call.output_path[1] \o k \o call.file_number[1]
                wrote(ks) == [f \in {name(k) : k \in ks} |->
                                Take(rows, part[CHOOSE k \in ks : f = name(k)])]
            IN  /\ call' = [call EXCEPT !.product = Given(part)]
                /\ IF good = DOMAIN part
                   THEN files' = Written(wrote(good)) /\ Return
                   ELSE /\ Raise("IndexError")
                        /\ \E done \in SUBSET good : files' = Written(wrote(done))
    /\ UNCHANGED callOnly

\* save_flag_split(flag_split, output_path, file_number) l.401-412
CallSaveFlagSplit ==
    /\ pc = "call" /\ call.writer = "save_flag_split"
    /\ IF call.product = Missing
       THEN Raise("flag_split not provided") /\ UNCHANGED files
       ELSE IF call.output_path = Missing
       THEN Raise("output path not provided") /\ UNCHANGED files
       ELSE IF call.file_number = Missing
       THEN Raise("file_number path not provided") /\ UNCHANGED files
       ELSE LET part == call.product[1]
                name(k) == call.output_path[1] \o "flag_" \o k \o call.file_number[1]
            IN  /\ files' = Written([f \in {name(k) : k \in DOMAIN part} |->
                                       part[CHOOSE k \in DOMAIN part : f = name(k)]])
                /\ Return
    /\ UNCHANGED <<call, callOnly>>

\* save_stat(stat, output_path) l.428-439
CallSaveStat ==
    /\ pc = "call" /\ call.writer = "save_stat"
    /\ IF call.product = Missing
       THEN Raise("stat not provided") /\ UNCHANGED files
       ELSE IF call.output_path = Missing
       THEN Raise("output path not provided") /\ UNCHANGED files
       ELSE /\ files' = Written(Put(EmptyDict, call.output_path[1], call.product[1]))
            /\ Return
    /\ UNCHANGED <<call, callOnly>>

(* ------------------------- config files (inputs) ----------------------- *)

Hdr(kind) == <<"[", kind, "]">>

HdrN(kind, name) == <<"[", kind, ":", name, "]">>

\* lines that begin with '[' and are not of the form [KIND] or [KIND:NAME]
BadHeaders ==
    {<<"[", "MASK">>, <<"[", "MASK", "]", "junk">>, <<"[", "MASK", ":", "]">>,
     <<"[", "MASK", ":", "a", ":", "b", "]">>}

\* lines with one quoted substring (with a space, with a '#') and with two
QuotedLines ==
    {<<"X", " ", "=", "\"", "a", " ", "b", "\"", " ", "#", "c", "\n">>,
     <<"X", "=", "\"", "a", "#", "b", "\"", "\n">>,
     <<"\"", "a", " ", "b", "\"", "=", "\"", "c", " ", "d", "\"", "\n">>}

\* the reader: headers of the six kinds, unnamed, named, and named like a generated name
ReadLines ==
    {Hdr(Kinds[n]) : n \in 1..6}
      \cup {HdrN(Kinds[n], "a") : n \in 1..6}
      \cup {HdrN(Kinds[n], GenName(Prefix[n], 2)) : n \in 1..6}
      \cup {Hdr("FOO"), <<"X", "=", "MAG">>, <<" ", "#", "c", "\n">>}
      \cup BadHeaders \cup QuotedLines

InitRead == InitCommon /\ data = [MAG |-> [r \in Rows |-> r]]

NextRead ==
    \/ ReadBegin
    \/ \E raw \in ReadLines : Len(config) < MaxReadLines /\ ReadLine(raw)
    \/ ReadEOF

SpecRead == InitRead /\ [][NextRead]_vars

\* the masks: MASK sections named a, b or unnamed, predicates on MAG, references
\* to the masks a and b, NO_SAVE
MaskLines ==
    {Hdr("MASK"), HdrN("MASK", "a"), HdrN("MASK", "b"),
     <<"MAG", "<", "1">>, <<"MAG", ">", "0">>, <<"a">>, <<"b">>, <<"NO_SAVE">>}

InitMask == InitCommon /\ data \in {[MAG |-> v] : v \in [Rows -> 0..1]}

NextMask ==
    \/ ReadBegin
    \/ \E raw \in MaskLines : Len(config) < MaxLines /\ ReadLine(raw)
    \/ ReadEOF
    \/ MaskBegin
    \/ MakeMaskLine
    \/ MakeMaskStore
    \/ SaveMask

SpecMask == InitMask /\ [][NextMask]_vars

\* the random splits: the masks a (MAG < 1) and b (MAG > 0) on the catalogue
\* MAG = 0, 1, 2, ..., then unnamed RAND_SPLIT sections with RATIO and MASK lines
Prelude == <<HdrN("MASK", "a"), <<"MAG", "<", "1">>, HdrN("MASK", "b"), <<"MAG", ">", "0">>>>

RandLines ==
    {Hdr("RAND_SPLIT"), <<"RATIO", "=", "50">>, <<"RATIO", "=", "0", ".", "5">>,
     <<"RATIO", "=", "1">>, <<"MASK", "=", "a">>, <<"MASK", "=", "b">>}

\* the lines a file of the family may hold after its first n lines
After_Prelude(n, lines) ==
    IF n < Len(Prelude) THEN {Prelude[n + 1]}
    ELSE IF n < Len(Prelude) + MaxLines THEN lines ELSE {}

InitRand == InitCommon /\ data = [MAG |-> [r \in Rows |-> r]]

NextRand ==
    \/ ReadBegin
    \/ \E raw \in After_Prelude(Len(config), RandLines) : ReadLine(raw)
    \/ ReadEOF
    \/ MaskBegin
    \/ MakeMaskLine
    \/ MakeMaskStore
    \/ SaveMask
    \/ PlotBegin
    \/ NewCatBegin
    \/ RandBegin
    \/ RandSection
    \/ RandDraw
    \/ RandStore
    \/ SaveRandSplit

SpecRand == InitRand /\ [][NextRand]_vars

\* the flag splits: FLAG_SPLIT sections with PARAM_NAME lines, on every catalogue
\* whose MAG column holds flag values
FlagValues == {0, 1, 2}

FlagLines ==
    {Hdr("FLAG_SPLIT"), <<"PARAM", "_", "NAME", "=", "MAG">>, <<"PARAM", "_", "NAME", "=", "NOPE">>,
     <<"X", "=", "1">>}

InitFlag == InitCommon /\ data \in {[MAG |-> v] : v \in [Rows -> FlagValues]}

NextFlag ==
    \/ ReadBegin
    \/ \E raw \in FlagLines : Len(config) < MaxLines /\ ReadLine(raw)
    \/ ReadEOF
    \/ MaskBegin
    \/ PlotBegin
    \/ NewCatBegin
    \/ RandBegin
    \/ FlagBegin
    \/ FlagSection
    \/ FlagPartition
    \/ SaveFlagSplit

SpecFlag == InitFlag /\ [][NextFlag]_vars

\* the plots: a MASK section and a histogram of MAG, then titles and labels with
\* no, one, two and four '@', and a second curve Y_1
PlotPrelude == <<Hdr("MASK"), Hdr("PLOT"), <<"TYPE", "=", "hist">>, <<"Y", "=", "MAG">>>>

TitleLines ==
    {<<"TITLE", "=", "t">>, <<"TITLE", "=", "t", "@", "u">>,
     <<"TITLE", "=", "t", "@", "MAG", "@", "u">>,
     <<"TITLE", "=", "t", "@", "MAG", "@", "u", "@", "NOPE", "@", "v">>,
     <<"LABEL", "=", "t", "@", "MAG", "@", "u">>, <<"LABEL", "=", "t">>,
     Hdr("PLOT"), <<"TYPE", "=", "plot">>, <<"Y", "=", "MAG">>, <<"X", "=", "MAG">>,
     <<"Y", "_", "1", "=", "MAG">>}

\* the lines a file of the plots may hold after its first n lines
After_PlotPrelude(n, lines) ==
    IF n < Len(PlotPrelude) THEN {PlotPrelude[n + 1]}
    ELSE IF n < Len(PlotPrelude) + MaxLines THEN lines ELSE {}

InitPlot == InitCommon /\ data = [MAG |-> [r \in Rows |-> r]]

NextPlot ==
    \/ ReadBegin
    \/ \E raw \in After_PlotPrelude(Len(config), TitleLines) : ReadLine(raw)
    \/ ReadEOF
    \/ MaskBegin
    \/ MakeMaskStore
    \/ SaveMask
    \/ PlotBegin
    \/ SavePlot

SpecPlot == InitPlot /\ [][NextPlot]_vars

\* the new catalogues and the statistics: a MASK section, NEW_CAT and STAT sections
\* with a column, a comparison written with <=, and the output formats
CatLines ==
    {Hdr("MASK"), Hdr("NEW_CAT"), Hdr("STAT"), <<"X", "=", "MAG">>,
     <<"Y", "=", "MAG", "<", "=", "1">>, <<"OUTPUT_FORMAT", "=", "txt">>,
     <<"OUTPUT_FORMAT", "=", "fits">>, <<"OUTPUT_FORMAT", "=", "bad">>}

InitCat == InitCommon /\ data = [MAG |-> [r \in Rows |-> r]]

NextCat ==
    \/ ReadBegin
    \/ \E raw \in CatLines : Len(config) < MaxLines /\ ReadLine(raw)
    \/ ReadEOF
    \/ MaskBegin
    \/ MakeMaskLine
    \/ MakeMaskStore
    \/ SaveMask
    \/ PlotBegin
    \/ NewCatBegin
    \/ SaveNewCat
    \/ RandBegin
    \/ FlagBegin
    \/ StatBegin
    \/ SaveStat

SpecCat == InitCat /\ [][NextCat]_vars

\* save_new_cat on any derived catalogue of one or two columns of up to MaxCol rows
MaxCol == 2

Columns == UNION {[0..(n - 1) -> 0..1] : n \in 0..MaxCol}

DerivedCats ==
    UNION {[ks -> Columns] : ks \in SUBSET {"X", "Y"}}

InitAscii ==
    /\ pc = "save_new_cat" /\ err = "" /\ config = <<>> /\ in_section = 0
    /\ sec_name = [n \in 1..6 |-> ""]
    /\ _mask = EmptyDict /\ _mask_key = <<>> /\ _plot = EmptyDict
    /\ _stat = EmptyDict /\ _new_cat = EmptyDict
    /\ _rand_split = EmptyDict /\ _flag_split = EmptyDict
    /\ attrs = {"new_cat"} /\ mask = EmptyDict /\ mk = <<>> /\ handed = <<>>
    /\ rs = <<>> /\ rand_split = EmptyDict /\ rs_log = EmptyDict
    /\ flag_split = EmptyDict /\ fs = <<>> /\ built = EmptyDict
    /\ plot = EmptyDict /\ stat = EmptyDict
    /\ dirs = {"new_cat"} /\ files = EmptyDict /\ call = <<>> /\ runs = <<>>
    /\ data = [MAG |-> [r \in Rows |-> r]]
    /\ todo = {"new_cat_1"}
    /\ \E cat \in DerivedCats : \E f \in TextFormats :
          new_cat = [i \in {"new_cat_1"} |-> Put(cat, "OUTPUT_FORMAT", <<f>>)]

NextAscii == SaveNewCat

SpecAscii == InitAscii /\ [][NextAscii]_vars

\* the writers called alone, each argument given or None: masks over the rows,
\* catalogues of one column with and without OUTPUT_FORMAT, a split of the rows of
\* a mask, flag partitions, statistics
Opt(values) == {Missing} \cup {Given(v) : v \in values}

NewCatProducts ==
    {[X |-> [r \in Rows |-> r]]}
      \cup {Put([X |-> [r \in Rows |-> r]], "OUTPUT_FORMAT", <<f>>) :
              f \in {"txt", "fits", "SEx_cat", "bad"}}

RandProducts ==
    {[mask |-> v, ratio_100 |-> Range(Len(Where(v))), ratio_0 |-> <<>>] :
        v \in [Rows -> BOOLEAN]}
      \cup {[mask |-> [r \in Rows |-> r = 0], ratio_50 |-> <<1>>], [ratio_50 |-> <<0>>]}

FlagProducts == {[k \in {ToString(j) : j \in {col[r] : r \in Rows}} |->
                    WhereEq(col, CHOOSE j \in 0..1 : ToString(j) = k)] :
                 col \in [Rows -> 0..1]}

StatProducts == {EmptyDict, [X |-> [r \in Rows |-> r]]}

Calls ==
    {[writer |-> "save_mask", product |-> p, output_path |-> o, file_number |-> Missing] :
        p \in Opt([Rows -> BOOLEAN]), o \in Opt({"out/"})}
      \cup {[writer |-> "save_new_cat", product |-> p, output_path |-> o,
             file_number |-> Missing] : p \in Opt(NewCatProducts), o \in Opt({"out/"})}
      \cup {[writer |-> "save_rand_split", product |-> p, output_path |-> o,
             file_number |-> n] :
              p \in Opt(RandProducts), o \in Opt({"out/"}), n \in Opt({"-000-0"})}
      \cup {[writer |-> "save_flag_split", product |-> p, output_path |-> o,
             file_number |-> n] :
              p \in Opt(FlagProducts), o \in Opt({"out/"}), n \in Opt({"-000-0"})}
      \cup {[writer |-> "save_stat", product |-> p, output_path |-> o,
             file_number |-> Missing] : p \in Opt(StatProducts), o \in Opt({"out/"})}

InitWriter ==
    /\ pc = "call" /\ err = "" /\ config = <<>> /\ in_section = 0
    /\ sec_name = [n \in 1..6 |-> ""]
    /\ _mask = EmptyDict /\ _mask_key = <<>> /\ _plot = EmptyDict
    /\ _stat = EmptyDict /\ _new_cat = EmptyDict
    /\ _rand_split = EmptyDict /\ _flag_split = EmptyDict
    /\ attrs = {} /\ mask = EmptyDict /\ mk = <<>> /\ handed = <<>> /\ todo = {}
    /\ rs = <<>> /\ rand_split = EmptyDict /\ rs_log = EmptyDict
    /\ flag_split = EmptyDict /\ fs = <<>> /\ built = EmptyDict
    /\ plot = EmptyDict /\ new_cat = EmptyDict /\ stat = EmptyDict
    /\ dirs = {} /\ files = EmptyDict
    /\ data = [MAG |-> [r \in Rows |-> r]]
    /\ call \in Calls /\ runs = <<>>

NextWriter ==
    \/ CallSaveMask
    \/ CallSaveNewCat
    \/ CallSaveRandSplit
    \/ CallSaveFlagSplit
    \/ CallSaveStat

SpecWriter == InitWriter /\ [][NextWriter]_vars

\* process() called again and again on one object, with the same catalogue and the
\* same config file: MASK sections named a or unnamed, a predicate, a reference
MaxRuns == 2

AgainLines == {Hdr("MASK"), HdrN("MASK", "a"), <<"MAG", "<", "1">>, <<"a">>}

\* what a run gave: the lines read, the section tables, the masks, how it ended
Outcome ==
    [config |-> config, tables |-> tables, mask |-> mask, attrs |-> attrs,
     pc |-> pc, err |-> err]

\* the caller calls process() again once the masks are saved or the run has stopped;
\* the attributes of the object stay as the run left them
Again ==
    /\ pc \in {After("mask"), "error"}
    /\ Len(runs) < MaxRuns
    /\ runs' = Append(runs, Outcome)
    /\ pc' = "process"
    /\ err' = ""
    /\ UNCHANGED <<config, in_section, sec_name, tables, data, call, attrs, mask, mk,
                   handed, todo, rs, rand_split, rs_log, flag_split, fs, others, built,
                   dirs, files>>

\* the file holds raw at the position of read(): any line on the first run, the
\* line it held then on a later run
FileLine(raw) ==
    IF runs = <<>> THEN Len(config) < MaxLines
    ELSE Len(config) < Len(runs[1].config) /\ raw = runs[1].config[Len(config) + 1]

\* the file holds no more line
FileEnd == IF runs = <<>> THEN TRUE ELSE Len(config) = Len(runs[1].config)

InitAgain == InitCommon /\ data = [MAG |-> [r \in Rows |-> r]]

NextAgain ==
    \/ ReadBegin
    \/ \E raw \in AgainLines : FileLine(raw) /\ ReadLine(raw)
    \/ FileEnd /\ ReadEOF
    \/ MaskBegin
    \/ MakeMaskLine
    \/ MakeMaskStore
    \/ SaveMask
    \/ Again

SpecAgain == InitAgain /\ [][NextAgain]_vars

\* the draw loop: the mask a (MAG < 1) on every catalogue with MAG in 0..1, then
\* one RAND_SPLIT section on the pool a with a RATIO line: in (0, 1), in [1, 100],
\* above 100, zero, negative, not a number
DrawPrelude ==
    <<HdrN("MASK", "a"), <<"MAG", "<", "1">>, Hdr("RAND_SPLIT"), <<"MASK", "=", "a">>>>

RatioLines ==
    {<<"RATIO", "=", "0">>, <<"RATIO", "=", "0", ".", "5">>, <<"RATIO", "=", "1">>,
     <<"RATIO", "=", "50">>, <<"RATIO", "=", "100">>, <<"RATIO", "=", "100", ".", "5">>,
     <<"RATIO", "=", "-", "50">>, <<"RATIO", "=", "-", "0", ".", "5">>,
     <<"RATIO", "=", "x">>}

\* the lines a file of the draws may hold after its first n lines
After_DrawPrelude(n, lines) ==
    IF n < Len(DrawPrelude) THEN {DrawPrelude[n + 1]}
    ELSE IF n = Len(DrawPrelude) THEN lines ELSE {}

InitDraw == InitCommon /\ data \in {[MAG |-> v] : v \in [Rows -> 0..1]}

NextDraw ==
    \/ ReadBegin
    \/ \E raw \in After_DrawPrelude(Len(config), RatioLines) : ReadLine(raw)
    \/ ReadEOF
    \/ MaskBegin
    \/ MakeMaskLine
    \/ MakeMaskStore
    \/ SaveMask
    \/ PlotBegin
    \/ NewCatBegin
    \/ RandBegin
    \/ RandSection
    \/ RandDraw
    \/ RandStore
    \/ SaveRandSplit

\* _make_rand_split is sequential code: while the loop has a next step (a draw,
\* or the writes that follow the last draw) it takes it
SpecDraw ==
    InitDraw /\ [][NextDraw]_vars /\ WF_vars(RandDraw) /\ WF_vars(RandStore)

\* process() as a whole: unnamed sections of the six kinds, one line for each
AllLines ==
    {Hdr(Kinds[n]) : n \in 1..6}
      \cup {<<"MAG", "<", "1">>, <<"X", "=", "MAG">>, <<"RATIO", "=", "50">>,
            <<"PARAM", "_", "NAME", "=", "MAG">>, Hdr("FOO")}

Init == InitCommon /\ data = [MAG |-> [r \in Rows |-> r]]

Next ==
    \/ ReadBegin
    \/ \E raw \in AllLines : Len(config) < MaxLines /\ ReadLine(raw)
    \/ ReadEOF
    \/ MaskBegin
    \/ MakeMaskLine
    \/ MakeMaskStore
    \/ SaveMask
    \/ PlotBegin
    \/ SavePlot
    \/ NewCatBegin
    \/ SaveNewCat
    \/ RandBegin
    \/ RandSection
    \/ RandDraw
    \/ RandStore
    \/ SaveRandSplit
    \/ FlagBegin
    \/ FlagSection
    \/ FlagPartition
    \/ SaveFlagSplit
    \/ StatBegin
    \/ SaveStat

Spec == Init /\ [][Next]_vars

\* the value of the last line key=value of the section, <<>> when it has none
RECURSIVE LastValue(_, _)
LastValue(lines, key) ==
    IF lines = <<>> THEN <<>>
    ELSE LET s == Split(lines[Len(lines)], {"="})
         IN  IF Len(s) = 2 /\ Str(s[1]) = key THEN <<s[2]>>
             ELSE LastValue(SubSeq(lines, 1, Len(lines) - 1), key)

\* the mask names that the MASK lines of a section name
OwnMasks(lines) ==
    {Str(k) : k \in UNION {{Split(Split(lines[n], {"="})[2], {","})[m] :
                              m \in 1..Len(Split(Split(lines[n], {"="})[2], {","}))} :
                           n \in {x \in 1..Len(lines) :
                                    /\ Len(Split(lines[x], {"="})) = 2
                                    /\ Str(Split(lines[x], {"="})[1]) = "MASK"}}}

OwnPool(lines) == [r \in Rows |-> \A k \in OwnMasks(lines) : mask[k][r]]

Count(v) == Cardinality({r \in Rows : v[r]})

Elems(list) == {list[n] : n \in 1..Len(list)}

\* C4: the pool of every RAND_SPLIT product (the mask under 'mask', and the P its
\* subsets were drawn from) is the AND of the masks that the section's own MASK
\* lines name, the full catalogue when it has none.
C4_PoolIsOwnMasks ==
    /\ \A i \in DOMAIN rs_log :
          /\ rs_log[i].mask = OwnPool(_rand_split[i])
          /\ rs_log[i].cat_size = Count(OwnPool(_rand_split[i]))
    /\ pc = "save_rand_split" =>
          \A i \in DOMAIN rand_split :
              "mask" \in DOMAIN rand_split[i] => rs.mask = OwnPool(_rand_split[i])

\* C5: for a ratio in (0, 1], the kept subset and the complement of a section hold
\* positions 0..P-1 only, no position twice, are disjoint, and their sizes sum to P.
C5_SubsetsPartitionPool ==
    \A i \in DOMAIN rs_log :
        LET L == rs_log[i]
            P == Count(L.mask)
        IN  (0 < L.ratio[1] /\ L.ratio[1] <= Scale) =>
              /\ L.cat_size = P
              /\ Elems(L.mask_ratio) \cup Elems(L.mask_left) \subseteq 0..(P - 1)
              /\ Cardinality(Elems(L.mask_ratio)) = Len(L.mask_ratio)
              /\ Cardinality(Elems(L.mask_left)) = Len(L.mask_left)
              /\ Elems(L.mask_ratio) \cap Elems(L.mask_left) = {}
              /\ Len(L.mask_ratio) + Len(L.mask_left) = P

\* two sections are stored, one of them with a pool of two rows or more split in
\* two non-empty subsets
C5_Witness ==
    /\ pc = "save_rand_split"
    /\ Cardinality(DOMAIN rs_log) >= 2
    /\ \E i \in DOMAIN rs_log :
          /\ rs_log[i].cat_size >= 2
          /\ Len(rs_log[i].mask_ratio) >= 1
          /\ Len(rs_log[i].mask_left) >= 1

\* C6: a section with a RATIO line keeps exactly ceil(P * ratio) positions, ratio
\* being the RATIO value divided by 100 when that value is >= 1, and leaves
\* P - ceil(P * ratio).
C6_KeptIsCeil ==
    \A i \in DOMAIN rs_log :
        LET L == rs_log[i]
            v == LastValue(_rand_split[i], "RATIO")
            x == Float(v[1])
            k == Len(L.mask_ratio)
        IN  v # <<>> =>
              /\ IF x >= Scale
                 THEN k * Scale * 100 >= L.cat_size * x /\ (k - 1) * Scale * 100 < L.cat_size * x
                 ELSE k * Scale >= L.cat_size * x /\ (k - 1) * Scale < L.cat_size * x
              /\ Len(L.mask_left) = L.cat_size - k

\* RATIO=50 on a pool of three rows: two kept, one left
C6_Witness ==
    \E i \in DOMAIN rs_log :
        /\ LastValue(_rand_split[i], "RATIO") = << <<"50">> >>
        /\ rs_log[i].cat_size = 3
        /\ Len(rs_log[i].mask_ratio) = 2

\* C7: every product holds the pool mask and two index arrays, the kept subset
\* under ratio_<pct> and the complement under ratio_<100-pct>.
C7_TwoArraysPerProduct ==
    \A i \in DOMAIN rs_log :
        "mask" \in DOMAIN rand_split[i] =>
            LET p == Pct(rs_log[i].ratio[1])
            IN  /\ DOMAIN rand_split[i] = {"mask", RatioKey(p), RatioKey(100 - p)}
                /\ rand_split[i][RatioKey(p)] = rs_log[i].mask_ratio
                /\ rand_split[i][RatioKey(100 - p)] = rs_log[i].mask_left

\* C9: a RAND_SPLIT section gets a product only if it has a RATIO line of its own,
\* and the flag splits are built only if every FLAG_SPLIT section has a PARAM_NAME
\* line of its own: a section without its directive stops the run.
C9_DirectiveRequiredPerSection ==
    /\ \A i \in DOMAIN rs_log : LastValue(_rand_split[i], "RATIO") # <<>>
    /\ pc = "save_flag_split" =>
          \A i \in DOMAIN _flag_split : LastValue(_flag_split[i], "PARAM_NAME") # <<>>

\* C1: every built mask is a boolean vector over the N rows, equal row by row to
\* the conjunction of the predicate results of the lines of its section other than
\* NO_SAVE (all-true when the section has no such line).
C1_MaskIsAndOfLines ==
    \A i \in DOMAIN mask :
        /\ DOMAIN mask[i] = Rows
        /\ \A r \in Rows :
              mask[i][r] = \A n \in 1..Len(_mask[i]) :
                              \/ Str(_mask[i][n]) = "NO_SAVE"
                              \/ interpreter(_mask[i][n], data, TRUE, mask).result[r]

\* a mask of two lines or more is built and selects some rows but not all
C1_Witness ==
    /\ pc = "save_mask"
    /\ \E i \in DOMAIN mask :
          /\ Len(_mask[i]) >= 2
          /\ \E r \in Rows : mask[i][r]
          /\ \E r \in Rows : ~mask[i][r]

\* C2: the masks are built in declaration order, the mask_dict handed to the
\* interpreter for a line of the section at position i of _mask_key holds exactly
\* the names declared before position i, and a line that names a mask not declared
\* before it (or the section being built) is not resolved: the build fails.
C2_OnlyEarlierMasks ==
    /\ pc = "make_mask" => DOMAIN mask = {_mask_key[k] : k \in 1..(mk.i - 1)}
    /\ handed # <<>> =>
          LET earlier == {_mask_key[k] : k \in 1..(handed.i - 1)}
          IN  /\ handed.names = earlier
              /\ handed.ok /\ Len(handed.line) = 1 =>
                    handed.line[1] \in earlier /\ handed.line[1] # _mask_key[handed.i]
              /\ ~handed.ok => pc = "error"
              /\ Len(handed.line) = 1 /\ handed.line[1] \notin earlier => ~handed.ok

\* a line names a mask that a later section declares, and the build has failed
C2_Witness ==
    /\ pc = "error"
    /\ handed # <<>>
    /\ Len(handed.line) = 1
    /\ \E k \in (handed.i + 1)..Len(_mask_key) : _mask_key[k] = handed.line[1]

\* C3: whenever a PLOT, NEW_CAT, RAND_SPLIT, FLAG_SPLIT or STAT family is built,
\* the mask mapping holds a mask for every MASK section of the config, wherever
\* the MASK sections stand in the file.
C3_MasksBeforeProducts ==
    \A f \in DOMAIN built : built[f] = DOMAIN _mask

\* a family is built with a mask whose section stands after a section of another
\* kind in the file
C3_Witness ==
    /\ \E f \in DOMAIN built : built[f] # {}
    /\ \E n \in 1..Len(config) : \E m \in (n + 1)..Len(config) :
          /\ config[n] \in {Hdr(Kinds[k]) : k \in 2..6}
          /\ config[m] = Hdr("MASK")

\* C8: once the flag splits are built, every FLAG_SPLIT section has one partition
\* per distinct value of its PARAM_NAME column, keyed by the string of the value and
\* holding the rows where the column equals it.
C8_PartitionPerValue ==
    pc = "save_flag_split" =>
        \A i \in DOMAIN _flag_split :
            LastValue(_flag_split[i], "PARAM_NAME") # <<>> =>
                LET col    == data[Str(LastValue(_flag_split[i], "PARAM_NAME")[1])]
                    values == {col[r] : r \in Rows}
                IN  /\ DOMAIN flag_split[i] = {ToString(v) : v \in values}
                    /\ \A v \in values : flag_split[i][ToString(v)] = WhereEq(col, v)

\* the sections of kind n that the lines read so far declare
RECURSIVE Declared(_, _)
Declared(lines, n) ==
    IF lines = <<>> THEN 0
    ELSE LET l == _clean_line(Head(lines))
         IN  Declared(Tail(lines), n)
               + (IF l # None /\ Head(l) = "["
                     /\ KindNo(Str(Split(Split(l, {"[", "]"})[2], {":"})[1])) = n
                  THEN 1 ELSE 0)

\* C10: after read(), the sections of one kind are held under pairwise distinct
\* names: each table has as many entries as the config declares sections of its kind.
C10_SectionsKeepOwnName ==
    pc = "mask" => \A n \in 1..6 : Cardinality(DOMAIN Table(n)) = Declared(config, n)

\* the cleaned lines of the file that are kept, in file order
Kept(lines) == SelectSeq([n \in 1..Len(lines) |-> _clean_line(lines[n])],
                         LAMBDA l : l # None)

\* the kept lines that stand after position h, up to the next header
RECURSIVE Body(_, _)
Body(kept, h) ==
    IF h >= Len(kept) \/ Head(kept[h + 1]) = "[" THEN <<>>
    ELSE <<kept[h + 1]>> \o Body(kept, h + 1)

\* the positions of the headers of kind n among the kept lines
Headers(kept, n) ==
    {h \in 1..Len(kept) :
        /\ Head(kept[h]) = "["
        /\ Str(Split(Split(kept[h], {"[", "]"})[2], {":"})[1]) = Kinds[n]}

WellFormed(line) ==
    LET word(t) == t \notin {"[", "]", ":"}
    IN  \/ Len(line) = 3 /\ line[1] = "[" /\ word(line[2]) /\ line[3] = "]"
        \/ /\ Len(line) = 5 /\ line[1] = "[" /\ word(line[2]) /\ line[3] = ":"
           /\ word(line[4]) /\ line[5] = "]"

\* C13: a line that begins with '[' and is not of the form [KIND] or [KIND:NAME]
\* opens no section: read() stops with an error on it.
C13_MalformedHeaderRejected ==
    (\E h \in 1..Len(Kept(config)) :
        Head(Kept(config)[h]) = "[" /\ ~WellFormed(Kept(config)[h]))
      => pc = "error"

\* the line without the spaces and the trailing comment that stand outside
\* double-quoted substrings (the quote marks are left out)
RECURSIVE RefClean(_, _)
RefClean(line, quoted) ==
    IF line = <<>> THEN <<>>
    ELSE IF Head(line) = "\"" THEN RefClean(Tail(line), ~quoted)
    ELSE IF quoted THEN <<Head(line)>> \o RefClean(Tail(line), quoted)
    ELSE IF Head(line) = "#" THEN <<>>
    ELSE IF Head(line) \in {" ", "\n", "\t"} THEN RefClean(Tail(line), quoted)
    ELSE <<Head(line)>> \o RefClean(Tail(line), quoted)

\* C14: the line that read() stores for a raw line of an open section is the raw
\* line without the spaces and the trailing comment outside its double-quoted
\* substrings, the quoted text unchanged; a line empty after cleaning is discarded.
C14_CleanKeepsQuoted ==
    [][\A n \in 1..6 :
         (pc = "read" /\ pc' = "read" /\ in_section = n
            /\ Len(config') = Len(config) + 1) =>
           LET ref == RefClean(config'[Len(config')], FALSE)
               k   == sec_name[n]
           IN  IF ref = <<>> THEN tables' = tables
               ELSE IF Head(ref) = "[" THEN TRUE
               ELSE /\ Len(Table(n)'[k]) = Len(Table(n)[k]) + 1
                    /\ Remove(Table(n)'[k][Len(Table(n)'[k])], {"\""}) = ref]_vars

\* C12: a kept line that does not begin with '[' before the first header, and a
\* header whose kind is not one of the six, stop read() with an error; nothing is
\* built and nothing is written.
C12_StrayLineOrUnknownKindStops ==
    LET kept    == Kept(config)
        stray   == kept # <<>> /\ Head(kept[1]) # "["
        unknown == \E h \in 1..Len(kept) :
                      /\ Head(kept[h]) = "["
                      /\ \A n \in 1..6 :
                            Str(Split(Split(kept[h], {"[", "]"})[2], {":"})[1]) # Kinds[n]
    IN  stray \/ unknown =>
          /\ pc = "error"
          /\ err \in {"No section found", "Section has to be in [...]"}
          /\ attrs = {} /\ dirs = {} /\ files = EmptyDict

\* a header of an unknown kind after a MASK section with a line has stopped the run
C12_Witness ==
    /\ pc = "error"
    /\ err = "Section has to be in [...]"
    /\ \E k \in DOMAIN _mask : _mask[k] # <<>>

\* key and expr of a line key=expr: what stands before and after the first '='
RECURSIVE KeyOf(_)
KeyOf(line) ==
    IF line = <<>> \/ Head(line) = "=" THEN <<>> ELSE <<Head(line)>> \o KeyOf(Tail(line))

ExprOf(line) == SubSeq(line, Len(KeyOf(line)) + 2, Len(line))

\* a line key=expr whose expr has a value
HasValue(line) ==
    /\ Len(KeyOf(line)) < Len(line)
    /\ interpreter(ExprOf(line), data, FALSE, mask).ok

\* the entries that the lines key=expr of a section give: the value of expr under
\* key, a later line of the same key replacing an earlier one
RECURSIVE Entries(_, _)
Entries(lines, d) ==
    IF lines = <<>> THEN d
    ELSE Entries(Tail(lines),
                 Put(d, Str(KeyOf(Head(lines))),
                     IF Str(KeyOf(Head(lines))) = "OUTPUT_FORMAT" THEN ExprOf(Head(lines))
                     ELSE interpreter(ExprOf(Head(lines)), data, FALSE, mask).result))

\* C15: when the masks are built and every line of the STAT (NEW_CAT) sections is
\* key=expr with an expr of the sublanguage, comparisons with ==, !=, <=, >=
\* included, the family is built without error and each product holds the value of
\* expr under key, one entry per distinct key.
C15_ValueStoredPerKey ==
    /\ ("stat" \in attrs /\ "mask" \in attrs
          /\ \A i \in DOMAIN _stat : \A n \in 1..Len(_stat[i]) : HasValue(_stat[i][n])) =>
          /\ pc # "error"
          /\ \A i \in DOMAIN _stat : stat[i] = Entries(_stat[i], EmptyDict)
    /\ ("new_cat" \in attrs /\ "mask" \in attrs /\ "stat" \notin attrs
          /\ \A i \in DOMAIN _new_cat : \A n \in 1..Len(_new_cat[i]) :
                \/ Str(KeyOf(_new_cat[i][n])) = "OUTPUT_FORMAT"
                \/ HasValue(_new_cat[i][n])) =>
          /\ err # "Not a good format"
          /\ (pc = "save_new_cat" /\ todo = DOMAIN new_cat) =>
                \A i \in DOMAIN _new_cat : new_cat[i] = Entries(_new_cat[i], EmptyDict)

\* the positions of process() after the new catalogues
PastNewCat ==
    {"rand_split", "make_rand_split", "rand_draw", "save_rand_split", "flag_split",
     "make_flag_split", "save_flag_split", "stat", "save_stat", "done"}

\* C16: a NEW_CAT section without OUTPUT_FORMAT line, or with a value other than
\* fits, SEx_cat, ascii, txt, gets no file, and the run does not go past the new
\* catalogues.
C16_BadFormatStops ==
    \A i \in DOMAIN _new_cat :
        LET v == LastValue(_new_cat[i], "OUTPUT_FORMAT")
        IN  (v = <<>> \/ Str(v[1]) \notin {"fits", "SEx_cat", "ascii", "txt"}) =>
              /\ "new_cat/" \o i \o ".fits" \notin DOMAIN files
              /\ "new_cat/" \o i \o ".txt" \notin DOMAIN files
              /\ pc \notin PastNewCat

\* a NEW_CAT section with a column and OUTPUT_FORMAT=bad has stopped the run after
\* the mask was written
C16_Witness ==
    /\ pc = "error"
    /\ err = "Format should be in ['fits', 'SEx_cat', 'txt']"
    /\ \E i \in DOMAIN new_cat : "X" \in DOMAIN new_cat[i]
    /\ files # EmptyDict

\* the lines of a text file: what stands before each '\n'
FileLines(text) ==
    LET l == Split(text, {"\n"}) IN SubSeq(l, 1, Len(l) - 1)

\* C19: the text file of a derived catalogue is the line '# HEADER', a header row
\* '# ' with one tab-terminated cell per key, each key once, and L data rows, L the
\* length of the longest column; every data row has one tab-terminated cell per key
\* in header order, empty where the column is shorter: the keys and L are read back.
C19_AsciiRoundTrip ==
    \A i \in DOMAIN new_cat :
        ("new_cat/" \o i \o ".txt" \in DOMAIN files /\ DOMAIN new_cat[i] # {}) =>
            LET cat   == new_cat[i]
                lines == FileLines(files["new_cat/" \o i \o ".txt"])
                head  == Split(Tail(lines[2]), {"\t"})
                keys  == [j \in 1..(Len(head) - 1) |-> Str(head[j])]
                L     == NMax(cat)
            IN  /\ lines[1] = <<"# HEADER">>
                /\ Head(lines[2]) = "# "
                /\ head[Len(head)] = <<>>
                /\ Len(keys) = Cardinality(DOMAIN cat)
                /\ {keys[j] : j \in 1..Len(keys)} = DOMAIN cat
                /\ Len(lines) = 2 + L
                /\ \A r \in 1..L :
                      LET cells == Split(lines[2 + r], {"\t"})
                      IN  /\ Len(cells) = Len(keys) + 1
                          /\ cells[Len(cells)] = <<>>
                          /\ \A j \in 1..Len(keys) :
                                cells[j] = IF r - 1 \in DOMAIN cat[keys[j]]
                                           THEN <<Format(cat[keys[j]][r - 1])>>
                                           ELSE <<>>

\* a catalogue with a column of two rows and an empty column is written
C19_Witness ==
    \E i \in DOMAIN new_cat :
        /\ "new_cat/" \o i \o ".txt" \in DOMAIN files
        /\ DOMAIN new_cat[i] = {"X", "Y"}
        /\ Length(new_cat[i]["X"]) = 2
        /\ Length(new_cat[i]["Y"]) = 0

\* the family (position in Order) that a position of process() belongs to
Fam(p) ==
    CASE p \in {"process", "read"} -> 0
      [] p \in {"mask", "make_mask", "save_mask"} -> 1
      [] p \in {"plot", "save_plot"} -> 2
      [] p \in {"new_cat", "save_new_cat"} -> 3
      [] p \in {"rand_split", "make_rand_split", "rand_draw", "save_rand_split"} -> 4
      [] p \in {"flag_split", "make_flag_split", "save_flag_split"} -> 5
      [] p \in {"stat", "save_stat"} -> 6
      [] p = "done" -> 7

\* C17: process() goes through the families in the order mask, plot, new_cat,
\* rand_split, flag_split, stat; once an exception is raised nothing more is done;
\* a directory is made only for the family at hand, and a file once written is
\* never changed or removed.
C17_StopsAtFirstError ==
    [][/\ err = ""
       /\ pc # "error"
       /\ pc' # "error" => Fam(pc') \in {Fam(pc), Fam(pc) + 1}
       /\ dirs \subseteq dirs'
       /\ \A d \in dirs' \ dirs : d = Order[Fam(pc)]
       /\ attrs \subseteq attrs'
       /\ \A a \in attrs' \ attrs : a = Order[Fam(pc)]
       /\ \A f \in DOMAIN files : f \in DOMAIN files' /\ files'[f] = files[f]]_vars

\* the run has stopped in the new catalogues: the mask file is there, nothing of
\* the STAT section of the config is built
C17_Witness ==
    /\ pc = "error"
    /\ "new_cat" \in attrs
    /\ files # EmptyDict
    /\ _stat # EmptyDict
    /\ "stat" \notin attrs /\ "stat" \notin dirs /\ stat = EmptyDict

\* C18: every MASK section is built, with or without NO_SAVE; when process() has
\* visited a mask, its file exists iff its section has no NO_SAVE line, and holds
\* exactly the rows where the mask is true; no file exists for a mask not yet
\* visited.
C18_NoSaveBuiltNotWritten ==
    pc \in {"save_mask", "plot"} =>
        /\ DOMAIN mask = DOMAIN _mask
        /\ \A i \in DOMAIN mask :
              IF pc = "save_mask" /\ i \in todo
              THEN "mask/" \o i \notin DOMAIN files
              ELSE IF \E n \in 1..Len(_mask[i]) : _mask[i][n] = <<"NO_SAVE">>
              THEN "mask/" \o i \notin DOMAIN files
              ELSE /\ "mask/" \o i \in DOMAIN files
                   /\ files["mask/" \o i] = Where(mask[i])

\* a mask with NO_SAVE is used by a later mask: the later one is written and the
\* one with NO_SAVE is not
C18_Witness ==
    /\ pc = "plot"
    /\ \E i \in DOMAIN _mask : \E k \in DOMAIN _mask :
          /\ i # k
          /\ \E n \in 1..Len(_mask[i]) : _mask[i][n] = <<"NO_SAVE">>
          /\ \E n \in 1..Len(_mask[k]) : _mask[k][n] = <<i>>
          /\ "mask/" \o k \in DOMAIN files
          /\ "mask/" \o i \notin DOMAIN files

\* the text of a template as it is to be rendered: the segments between '@'
\* markers at odd positions evaluated, the others, and the last one, kept
RECURSIVE Rendered(_, _)
Rendered(s, k) ==
    IF k > Len(s) THEN <<>>
    ELSE (IF k < Len(s) /\ (k - 1) % 2 = 1
          THEN Stringify(interpreter(s[k], data, FALSE, mask).result)
          ELSE s[k]) \o Rendered(s, k + 1)

\* C20: the title of a figure drawn from TITLE=text is text when text has fewer than
\* two '@', and otherwise its segments in order, those at odd positions between
\* '@' markers replaced by the string of their value, the last segment kept.
C20_TemplateKeepsLiterals ==
    \A i \in DOMAIN plot :
        "plot/" \o i \in DOMAIN files /\ "TITLE" \in DOMAIN plot[i] =>
            LET text == plot[i]["TITLE"]["0"]
                s    == Split(text, {"@"})
            IN  files["plot/" \o i].title =
                    IF Len(s) >= 3 THEN s[1] \o Rendered(s, 2) ELSE text

\* the PARAM of a line PARAM=value or PARAM_subkey=value
ParamOf(line) == Str(Split(KeyOf(line), {"_"})[1])

\* its subkey, '0' for a line PARAM=value
SubkeyOf(line) ==
    LET ss == Split(KeyOf(line), {"_"}) IN IF Len(ss) = 1 THEN "0" ELSE Str(ss[2])

\* C21: once the plots are built, the value of every line of every PLOT section is
\* at plot[PARAM][subkey] ('0' for a line PARAM=value), unless a later line of the
\* section has the same PARAM and the same subkey.
C21_PlotParamsKept ==
    pc = "save_plot" =>
        \A i \in DOMAIN _plot : \A n \in 1..Len(_plot[i]) :
            LET l == _plot[i][n]
            IN  (~\E m \in (n + 1)..Len(_plot[i]) :
                     /\ ParamOf(_plot[i][m]) = ParamOf(l)
                     /\ SubkeyOf(_plot[i][m]) = SubkeyOf(l)) =>
                  /\ ParamOf(l) \in DOMAIN plot[i]
                  /\ SubkeyOf(l) \in DOMAIN plot[i][ParamOf(l)]
                  /\ plot[i][ParamOf(l)][SubkeyOf(l)] = ExprOf(l)

\* the ValueError messages of the writers
ValueErrors ==
    {"mask not provided", "output path not provided", "OUTPUT_FORMAT not provided",
     "Format should be in ['fits', 'SEx_cat', 'txt']", "rand_split not provided",
     "file_number path not provided", "flag_split not provided", "stat not provided"}

\* C22: a writer called with its product or its destination path missing, or, for
\* save_rand_split and save_flag_split, its file numbering missing, has raised a
\* ValueError once it is over, and has written no file.
C22_WritersFailFast ==
    (call # <<>> /\ pc # "call"
       /\ \/ call.product = Missing
          \/ call.output_path = Missing
          \/ call.writer \in {"save_rand_split", "save_flag_split"}
               /\ call.file_number = Missing) =>
        /\ pc = "error"
        /\ err \in ValueErrors
        /\ files = EmptyDict

\* the position of the family of kind n in the order of process()
Pos(n) == CHOOSE k \in 1..6 : Order[k] = Prefix[n]

\* process() is past the test `if len(self._<family>) != 0` of the family of kind n
Reached(n) ==
    /\ pc \notin {"process", "read", "error"}
    /\ Fam(pc) > Pos(n) \/ (Fam(pc) = Pos(n) /\ pc # Prefix[n])

\* the names of the files of the family of kind n, from its products
FilesOf(n) ==
    CASE n = 1 -> {"mask/" \o i : i \in DOMAIN mask}
      [] n = 2 -> {"plot/" \o i : i \in DOMAIN plot}
      [] n = 3 -> {"stat/" \o i \o ".txt" : i \in DOMAIN stat}
      [] n = 4 -> {"new_cat/" \o i \o e : i \in DOMAIN new_cat, e \in {".fits", ".txt"}}
      [] n = 5 -> UNION {{"rand_split/" \o i \o "_" \o k : k \in DOMAIN rand_split[i]} :
                           i \in DOMAIN rand_split}
      [] n = 6 -> UNION {{"flag_split/" \o i \o "_flag_" \o k : k \in DOMAIN flag_split[i]} :
                           i \in DOMAIN flag_split}

\* C23: the directory of a family exists only if the config has a section of the
\* family, exists as soon as process() is past the family's test when it has one,
\* and exists whenever the product attribute of the family or one of its files does.
C23_DirIffSection ==
    /\ \A n \in 1..6 :
          /\ Prefix[n] \in dirs => DOMAIN Table(n) # {}
          /\ (Reached(n) /\ DOMAIN Table(n) # {}) => Prefix[n] \in dirs
          /\ Prefix[n] \in attrs => Prefix[n] \in dirs
    /\ DOMAIN files \subseteq UNION {FilesOf(n) : n \in {m \in 1..6 : Prefix[m] \in dirs}}

\* process() is over with files written: two families had sections and have their
\* directory, another had none and has no directory
C23_Witness ==
    /\ pc = "done"
    /\ files # EmptyDict
    /\ Cardinality(dirs) >= 2
    /\ \E n \in 1..6 : DOMAIN Table(n) = {} /\ Prefix[n] \notin dirs

\* C24: a run of read() and _make_mask on an object that has run before, on the
\* same catalogue and config file, ends as each run before did: the same lines in
\* the same section tables, the same mask names in the same order (_mask_key), the
\* same mask values, the same error if any.
C24_RerunSameMasks ==
    pc \in {After("mask"), "error"} => \A k \in 1..Len(runs) : runs[k] = Outcome

\* the third run of a config with a named mask and an unnamed mask that refers to
\* it has saved its masks
C24_Witness ==
    /\ pc = After("mask")
    /\ Len(runs) >= 2
    /\ Len(_mask_key) = 2
    /\ GenName("mask", 2) \in DOMAIN mask
    /\ \E i \in DOMAIN mask : \E r \in Rows : ~mask[i][r]
    /\ \E i \in DOMAIN _mask : \E n \in 1..Len(_mask[i]) : Len(_mask[i][n]) = 1

\* the array stored under 'mask' in the product of section i: the one array of
\* _make_rand_split, as it is now
StoredMask(i) == IF rand_split[i]["mask"] = MaskRef THEN rs.mask ELSE Ones

\* C25: when the RAND_SPLIT products are saved, the mask stored for a section not
\* yet saved is the mask its subsets were drawn from: every index of its arrays is
\* below the number of rows the stored mask selects, the sizes of the two subsets
\* drawn sum to that number, and the stored mask is the pool of the draw.
C25_StoredPoolIsDrawnPool ==
    pc = "save_rand_split" =>
        \A i \in DOMAIN rand_split :
            "mask" \in DOMAIN rand_split[i] =>
                LET P == Count(StoredMask(i))
                IN  /\ \A k \in DOMAIN rand_split[i] \ {"mask"} :
                          \A n \in 1..Len(rand_split[i][k]) : rand_split[i][k][n] < P
                    /\ Len(rs_log[i].mask_ratio) + Len(rs_log[i].mask_left) = P
                    /\ StoredMask(i) = rs_log[i].mask

\* C26: once a line of a MASK section has failed, process() has stopped, no file
\* is written, and the mask mapping holds the masks of the sections before the
\* failing one only, not the vector of the failing section; and a mask file exists
\* only when a mask is built for every MASK section.
C26_FailedMaskWritesNothing ==
    /\ (handed # <<>> /\ ~handed.ok) =>
          /\ pc = "error"
          /\ files = EmptyDict
          /\ DOMAIN mask = {_mask_key[k] : k \in 1..(handed.i - 1)}
          /\ _mask_key[handed.i] \notin DOMAIN mask
    /\ files # EmptyDict =>
          /\ pc # "make_mask"
          /\ DOMAIN mask = DOMAIN _mask

\* the second line of the second MASK section has failed: the first mask is built,
\* the vector of the failing section holds the result of its first line
C26_Witness ==
    /\ pc = "error"
    /\ handed # <<>>
    /\ handed.i = 2
    /\ mk.j = 2
    /\ mk.mask_tmp # Ones
    /\ DOMAIN mask # {}
    /\ files = EmptyDict

PartsOf(name) ==
    LET col == data[name]
    IN  [k \in {ToString(col[r]) : r \in Rows} |->
           WhereEq(col, CHOOSE j \in {col[r] : r \in Rows} : ToString(j) = k)]

C29_MaskDefinedWithoutMaskSection ==
    /\ \A n \in 2..6 : Prefix[n] \in attrs => "mask" \in attrs
    /\ err # "AttributeError: mask"

\* C30: the draw loop ends: with n_keep in 0..P it is left after n_keep draws and
\* no error; with n_keep > P or n_keep < 0 it is left with an error.
C30_DrawLoopTerminates ==
    /\ (pc = "rand_draw" /\ 0 <= rs.n_keep /\ rs.n_keep <= rs.cat_size)
          ~> (pc \in {"make_rand_split", "save_rand_split"}
                /\ Len(rs.mask_ratio) = rs.n_keep)
    /\ (pc = "rand_draw" /\ (rs.n_keep < 0 \/ rs.n_keep > rs.cat_size))
          ~> (pc = "error" /\ rs # <<>> /\ Len(rs.mask_ratio) = rs.cat_size)

\* a negative RATIO on a pool of two rows or more: every row was drawn, then the
\* draw on the empty list stopped the run
C30_Witness ==
    /\ pc = "error"
    /\ err = "ValueError: low >= high"
    /\ rs.n_keep < 0
    /\ rs.cat_size >= 2
    /\ Len(rs.mask_ratio) = rs.cat_size

====
